---- MODULE Spec2Model ----
(***************************************************************************)
(* The multi-lane Nagel-Schreckenberg engine of                            *)
(* src/simulation/NagelSchreckenbergMultiple.py and the warmup/measurement *)
(* harness of src/simulation/SimulationMultiple.py as a state machine.     *)
(*                                                                         *)
(* Probabilities are kept in percent (lag parameter) and in halves of a    *)
(* vehicle per step (entry rate): random.random() < x is never true for    *)
(* x <= 0, always true for x >= 1 and a free choice in between.            *)
(*                                                                         *)
(* The second part is the search of src/simulation/Calibration.py. Its     *)
(* parameters and step sizes are whole numbers of ticks, one tick being    *)
(* 1% of a parameter's range when the range is 100 ticks wide; travel      *)
(* times are whole seconds. Products and quotients are rounded down to a   *)
(* tick where the code computes with floats.                               *)
(***************************************************************************)
EXTENDS Integers, Sequences, FiniteSets, TLC

\* ---------------------------------------------------------------- bounds
RoadLength == 4
VMax == 2
MaxCars == 2
WideCars == 3
MaxStep == 4
MaxCalls == 1
MaxCloses == 2
MaxWarmup == 2
MaxMeasure == 2
ResetCars == 4
MaxResets == 2
EntryCars == 3
MaxIterations == 4
ScheduleDuration == 5
MaxIntervals == 3

\* ------------------------------------------------------ program constants
Empty == -1
Closed == -2
Certain == 100
EntryUnit == 2

\* The lane counts of the engines under test, and of the wide road.
LaneCounts == {1, 2}
WideLaneCounts == {3}
\* The arguments the callers pass: lag parameters in percent, entry rates in
\* halves of a vehicle per step, closure durations in steps.
LagValues == {0, 50}
EntryRates == {1, 3}
Durations == {0, 2}

VARIABLES
    road_length,        \* self.road_length
    v_max,              \* self.v_max
    lanes,              \* self.lanes
    multi_lane_rules,   \* self.multi_lane_rules
    road,               \* self.road: lane -> position -> Empty | Closed | car id
    velocities,         \* self.velocities: car id -> speed
    next_car_id,        \* self.next_car_id
    entry_queue,        \* self.entry_queue
    current_step,       \* self.current_step
    start_times,        \* self.start_times: car id -> step of generation
    times_taken,        \* self.times_taken: car id -> duration (the ledger)
    closing_end_times,  \* self.closing_end_times: lane -> end step
    p,                  \* self.p, the lag parameter step() reads
    entry_rate,         \* self.entry_rate
    lag_parameter,      \* self.lag_parameter, the attribute set_parameters writes:
                        \* <<>> while it does not exist, <<value>> once it does
    admitted,           \* history: ids ever placed on the road
    entered,            \* history: id -> clock of the step that placed it on the road
    exited,             \* history: ids that moved over the road end
    discarded,          \* history: ids that were in a lane when close_lane hit it
    dropped,            \* history: ids that were waiting when reset_queue emptied the queue
    finalized,          \* history: id -> number of ledger writes for it
    dawdled,            \* history: the call just made was a step that slowed a car by chance
    switched,           \* history: the cars the step just made moved to another lane,
                        \* each with new lane - old lane
    last_call,          \* history: the operation that produced this state
    closed_until,       \* history: lane -> the latest end step a close_lane call named
    car_cap,            \* bound: the run stops generating at this many cars
    step_cap,           \* bound: the run makes at most this many steps
    call_cap,           \* bound: the run makes at most this many control calls
    calls,              \* history: control calls (resets, set_parameters, close_lane) so far
    pc,                 \* who drives the engine: "engine" (any caller) or a harness phase
    warmup_left,        \* harness: warmup steps still to run
    steps_left,         \* harness: measured steps still to run
    window_start,       \* harness: clock at the reset after warmup
    steps,              \* SimulationMultiple: self.steps
    data,               \* SimulationMultiple: the rows of self.data written so far
    run_log,            \* history: the engine calls SimulationMultiple.run has made
    \* Calibration: the configuration of __init__
    target_travel_time,     \* self.target_travel_time
    convergence_range,      \* self.convergence_range
    repetitions,            \* self.repetitions
    lag_parameter_min,      \* self.lag_parameter_min
    lag_parameter_max,      \* self.lag_parameter_max
    entry_rate_min,         \* self.entry_rate_min
    entry_rate_max,         \* self.entry_rate_max
    \* Calibration.calibrate: its position and its locals
    cal_pc,                 \* "idle", "call", "while", "map", "exit", "returned", "raised"
    cal_lag_parameter,      \* the local lag_parameter
    cal_entry_rate,         \* the local entry_rate
    lag_parameter_step,     \* the local lag_parameter_step
    entry_rate_step,        \* the local entry_rate_step
    dist,                   \* the local dist
    counter,                \* the local counter
    indices,                \* the local indices: the argument tuples of the workers
    sum_of_avg_travel_times,\* the local sum_of_avg_travel_times
    collected,              \* results of executor.map consumed in this iteration
    iteration_bound,        \* bound: the run explores at most this many iterations
    \* Calibration: the process pool of line 63
    futures,                \* the futures executor.map made in this iteration, one per tuple
    completed,              \* history: the workers of this iteration in the order they finished
    \* Calibration: the result surface; <<>> while the attribute does not exist
    result_travel_time,     \* self.result_travel_time
    result_lag_parameter,   \* self.result_lag_parameter
    result_entry_rate,      \* self.result_entry_rate
    return_value,           \* what calibrate hands to its caller; <<>> is None
    proposed,               \* history: the pair of lines 90 and 96 before clamping
    \* ScenarioRushour.run: its position and its locals
    rh_pc,                  \* "idle", "call", "run", "done", "raised"
    rh_duration,            \* the argument duration
    rh_given,               \* the argument parameters: tuples <<start, end, label>>
    rh_parameters,          \* the local parameters after line 91
    rh_next,                \* the index of the next tuple of the loop of line 97
    rh_executed             \* history: the time offsets i of line 99 that made a step(),
                            \* in the order they were made

engineVars == <<road_length, v_max, lanes, multi_lane_rules, road, velocities, next_car_id, entry_queue,
                current_step, start_times, times_taken, closing_end_times,
                p, entry_rate, lag_parameter>>
historyVars == <<admitted, entered, exited, discarded, dropped, finalized, dawdled, switched, last_call,
                 closed_until>>
harnessVars == <<car_cap, step_cap, call_cap, calls, pc, warmup_left, steps_left, window_start,
                 steps, data, run_log>>
calConfig == <<target_travel_time, convergence_range, repetitions, lag_parameter_min,
               lag_parameter_max, entry_rate_min, entry_rate_max>>
calLocals == <<cal_pc, cal_lag_parameter, cal_entry_rate, lag_parameter_step,
               entry_rate_step, dist, counter, indices, sum_of_avg_travel_times, collected,
               iteration_bound>>
calResult == <<result_travel_time, result_lag_parameter, result_entry_rate, return_value,
               proposed>>
calWorkers == <<futures, completed>>
calVars == <<calConfig, calLocals, calResult, calWorkers>>
rushVars == <<rh_pc, rh_duration, rh_given, rh_parameters, rh_next, rh_executed>>
vars == <<engineVars, historyVars, harnessVars, calVars, rushVars>>

LaneSet == 0 .. (lanes - 1)
Positions == 0 .. (road_length - 1)
Min(a, b) == IF a < b THEN a ELSE b
Max(a, b) == IF a > b THEN a ELSE b

\* The cells of r that hold car c.
CellsOf(r, c) == {lx \in LaneSet \X Positions : r[lx[1]][lx[2]] = c}
\* The car ids on r.
CarsOn(r) == {r[l][x] : l \in LaneSet, x \in Positions} \ {Empty, Closed}

\* The lane and the position of car c on the road r.
LaneOf(r, c) == CHOOSE l \in LaneSet : \E x \in Positions : r[l][x] = c
PosOf(r, c) == CHOOSE x \in Positions : r[LaneOf(r, c)][x] = c

\* __init__ for the given constructor arguments.
InitRoad(len, speed, n, rules, lag, rate) ==
    /\ road_length = len
    /\ v_max = speed
    /\ lanes = n
    /\ multi_lane_rules = rules
    /\ road = [l \in 0 .. (n - 1) |-> [x \in 0 .. (len - 1) |-> Empty]]
    /\ velocities = <<>>
    /\ next_car_id = 0
    /\ entry_queue = <<>>
    /\ current_step = 0
    /\ start_times = <<>>
    /\ times_taken = <<>>
    /\ closing_end_times = <<>>
    /\ p = lag
    /\ entry_rate = rate
    /\ lag_parameter = <<>>
    /\ admitted = {}
    /\ entered = <<>>
    /\ exited = {}
    /\ discarded = {}
    /\ dropped = {}
    /\ finalized = <<>>
    /\ dawdled = FALSE
    /\ switched = <<>>
    /\ last_call = "init"
    /\ closed_until = <<>>

\* __init__ for the road length and the maximum speed of the bounds above.
InitEngine(n, rules, lag, rate) == InitRoad(RoadLength, VMax, n, rules, lag, rate)

\* ------------------------------------------------------------ step(): cars
\* Accelerate leaving the speed as it is: a slowed vehicle never regains speed.
AccelerateNever(v) == v

\* Accelerate without the cap at the maximum speed.
AccelerateUncapped(v) == v + 1

\* Rule 1 (line 55): acceleration up to the maximum speed.
Accelerate(v) == Min(v + 1, v_max)

\* FreeAhead taking the road end for an obstruction.
FreeAheadOnRoad(r, lane, pos, gap) ==
    /\ pos + gap < road_length
    /\ r[lane][pos + gap] = Empty

\* The loop condition of lines 69 and 88: the cell gap cells ahead is beyond the
\* road end or empty in the previous road.
FreeAhead(r, lane, pos, gap) ==
    \/ pos + gap >= road_length
    \/ r[lane][pos + gap] = Empty

\* The while loops of lines 68-70 and 87-89; the value is gap when the loop ends.
RECURSIVE GapScan(_, _, _, _, _)
GapScan(r, lane, pos, limit, gap) ==
    IF gap <= limit /\ FreeAhead(r, lane, pos, gap)
    THEN GapScan(r, lane, pos, limit, gap + 1)
    ELSE gap

\* Rule 2 (lines 68-71): the speed after the gap constraint.
GapSpeed(r, lane, pos, v) == Min(v, GapScan(r, lane, pos, v, 1) - 1)

\* pos_back (line 63).
PosBack(pos) == Max(0, pos - v_max)

\* The left lane looked at in the cell beside the vehicle only.
LeftLaneFreeBeside(r, lane, pos) == r[lane - 1][pos] = Empty

\* Lines 78-84: the left lane is empty from pos_back through pos.
LeftLaneFree(r, lane, pos) ==
    \A x \in PosBack(pos) .. pos : r[lane - 1][x] = Empty

\* The right lane looked at from pos ahead only, through pos + v.
RightLaneFreeAhead(r, lane, pos, v, v_target) ==
    \A x \in pos .. Min(pos + v, road_length - 1) : r[lane + 1][x] = Empty

\* Lines 100-106: the right lane is empty over the first
\* min(pos_diff + v + 1, width) columns of the slice of line 65, which starts at
\* pos_back and ends before min(pos + v_target + 1, road_length).
RightLaneFree(r, lane, pos, v, v_target) ==
    LET width == Min(pos + v_target + 1, road_length) - PosBack(pos)
        n == Min((pos - PosBack(pos)) + v + 1, width)
    IN \A i \in 0 .. (n - 1) : r[lane + 1][PosBack(pos) + i] = Empty

\* The overtaking rule applied whatever multi_lane_rules says.
OvertakeAlways(r, lane, pos, v, v_target) ==
    IF v < v_target /\ lane # Max(lane - 1, 0)
       /\ LeftLaneFree(r, lane, pos)
    THEN LET v_overtake == GapScan(r, lane - 1, pos, v_target, 1) - 1
         IN IF v_overtake > v
            THEN [lane |-> lane - 1, v |-> v_overtake]
            ELSE [lane |-> lane, v |-> v]
    ELSE [lane |-> lane, v |-> v]

\* Lines 73-94: [lane, v] after the overtaking rule.
Overtake(r, lane, pos, v, v_target) ==
    IF multi_lane_rules /\ v < v_target /\ lane # Max(lane - 1, 0)
       /\ LeftLaneFree(r, lane, pos)
    THEN LET v_overtake == GapScan(r, lane - 1, pos, v_target, 1) - 1
         IN IF v_overtake > v
            THEN [lane |-> lane - 1, v |-> v_overtake]
            ELSE [lane |-> lane, v |-> v]
    ELSE [lane |-> lane, v |-> v]

\* Lines 96-109: the lane after the merging rule, for a car that is in
\* new_lane after the overtaking rule.
Merge(r, lane, pos, new_lane, v, v_target) ==
    IF multi_lane_rules /\ lane # Min(lane + 1, lanes - 1) /\ new_lane = lane
       /\ RightLaneFree(r, lane, pos, v, v_target)
    THEN lane + 1
    ELSE new_lane

\* Rule 3 (lines 112-113): slowing down by chance; draw is the outcome of
\* random.random() < self.p for this car.
Dawdle(v, draw) == IF v > 0 /\ draw THEN v - 1 ELSE v

\* Duration with its operands exchanged.
DurationSwapped(now, start) == start - now

\* Line 123: the duration written to the ledger.
Duration(now, start) == now - start

\* Drive with the chance rule applied before the lane decisions instead of
\* after them.
DriveDawdlingFirst(r, vel, lane, pos, draw) ==
    LET v_target == Accelerate(vel[r[lane][pos]])
        v_gap == GapSpeed(r, lane, pos, v_target)
        v_slow == Dawdle(v_gap, draw)
        o == Overtake(r, lane, pos, v_slow, v_target)
        new_lane == Merge(r, lane, pos, o.lane, o.v, v_target)
    IN [lane |-> new_lane, v |-> o.v, slowed |-> (v_slow # v_gap)]

\* Lines 50-113 for the car at (lane, pos): its new lane and final speed.
Drive(r, vel, lane, pos, draw) ==
    LET v_target == Accelerate(vel[r[lane][pos]])
        v_gap == GapSpeed(r, lane, pos, v_target)
        o == Overtake(r, lane, pos, v_gap, v_target)
        new_lane == Merge(r, lane, pos, o.lane, o.v, v_target)
    IN [lane |-> new_lane, v |-> Dawdle(o.v, draw),
        slowed |-> (Dawdle(o.v, draw) # o.v)]

\* One more ledger write for car_id in the history f.
Bump(f, car_id) ==
    (car_id :> (IF car_id \in DOMAIN f THEN f[car_id] + 1 ELSE 1)) @@ f

\* Move writing the time since the vehicle was placed on the road, without
\* the time it waited in the entry queue.
MoveSinceEntry(acc, car_id, d, pos) ==
    IF pos + d.v < road_length
    THEN [acc EXCEPT !.road[d.lane][pos + d.v] = car_id,
                     !.vel = (car_id :> d.v) @@ acc.vel,
                     !.dawdled = acc.dawdled \/ d.slowed]
    ELSE [acc EXCEPT !.times = (car_id :> Duration(current_step, entered[car_id]))
                                   @@ acc.times,
                     !.exited = acc.exited \cup {car_id},
                     !.finalized = Bump(acc.finalized, car_id),
                     !.dawdled = acc.dawdled \/ d.slowed]

\* Lines 115-123 for one car: acc is the state being built (new_road,
\* new_velocities, times_taken and the history of this step).
Move(acc, car_id, d, pos) ==
    IF pos + d.v < road_length
    THEN [acc EXCEPT !.road[d.lane][pos + d.v] = car_id,
                     !.vel = (car_id :> d.v) @@ acc.vel,
                     !.dawdled = acc.dawdled \/ d.slowed]
    ELSE IF car_id \in DOMAIN start_times
         THEN [acc EXCEPT !.times = (car_id :> Duration(current_step, start_times[car_id]))
                                        @@ acc.times,
                          !.exited = acc.exited \cup {car_id},
                          !.finalized = Bump(acc.finalized, car_id),
                          !.dawdled = acc.dawdled \/ d.slowed]
         ELSE [acc EXCEPT !.exited = acc.exited \cup {car_id},
                          !.dawdled = acc.dawdled \/ d.slowed]

\* The loop of lines 49-123 from cell k on, in np.argwhere's order (by lane,
\* then by position); draws holds the cars whose random draw is below self.p.
RECURSIVE MoveCars(_, _, _)
MoveCars(k, acc, draws) ==
    IF k >= lanes * road_length
    THEN acc
    ELSE LET lane == k \div road_length
             pos == k % road_length
             car_id == road[lane][pos]
         IN IF car_id >= 0
            THEN MoveCars(k + 1,
                          Move(acc, car_id,
                               Drive(road, velocities, lane, pos, car_id \in draws), pos),
                          draws)
            ELSE MoveCars(k + 1, acc, draws)

\* The new road of line 39 without the closures of lines 43-45.
ApplyNoClosures == [l \in LaneSet |-> [x \in Positions |-> Empty]]

\* Lines 39-45: the new road with the closures applied.
ApplyClosures ==
    [l \in LaneSet |->
        IF l \in DOMAIN closing_end_times /\ current_step < closing_end_times[l]
        THEN [x \in Positions |-> Closed]
        ELSE [x \in Positions |-> Empty]]

\* Draws with no outcome at all while the road holds no vehicle.
DrawsFailingOnEmptyRoad(x, ids) ==
    IF ids = {} THEN {} ELSE IF x <= 0 THEN {{}} ELSE IF x >= Certain THEN {ids} ELSE SUBSET ids

\* The outcomes of random.random() < x for a probability of x percent.
Draws(x, ids) == IF x <= 0 THEN {{}} ELSE IF x >= Certain THEN {ids} ELSE SUBSET ids

\* ------------------------------------------------- step(): entry and queue
\* Generate leaving every vehicle to the draw, whole ones included.
RECURSIVE GenerateByDrawOnly(_, _, _)
GenerateByDrawOnly(remaining, g, lucky) ==
    IF remaining > 0
    THEN GenerateByDrawOnly(remaining - EntryUnit,
                            IF lucky
                            THEN [queue |-> Append(g.queue, g.next),
                                  starts |-> (g.next :> current_step) @@ g.starts,
                                  next |-> g.next + 1]
                            ELSE g,
                            lucky)
    ELSE g

\* Generate stamping a new car with the clock of the next step.
RECURSIVE GenerateStampedLate(_, _, _)
GenerateStampedLate(remaining, g, lucky) ==
    IF remaining > 0
    THEN GenerateStampedLate(remaining - EntryUnit,
                             IF remaining >= EntryUnit \/ lucky
                             THEN [queue |-> Append(g.queue, g.next),
                                   starts |-> (g.next :> current_step + 1) @@ g.starts,
                                   next |-> g.next + 1]
                             ELSE g,
                             lucky)
    ELSE g

\* Lines 128-134: the generation loop. remaining is in halves of a vehicle;
\* random.random() < remaining is certain from 1.0 on and is the draw lucky below.
RECURSIVE Generate(_, _, _)
Generate(remaining, g, lucky) ==
    IF remaining > 0
    THEN Generate(remaining - EntryUnit,
                  IF remaining >= EntryUnit \/ lucky
                  THEN [queue |-> Append(g.queue, g.next),
                        starts |-> (g.next :> current_step) @@ g.starts,
                        next |-> g.next + 1]
                  ELSE g,
                  lucky)
    ELSE g

\* AdmitLane placing the oldest car whatever the entry cell holds.
AdmitLaneAnyCell(a, lane) ==
    IF a.queue # <<>>
    THEN [road |-> [a.road EXCEPT ![lane][0] = Head(a.queue)],
          vel |-> (Head(a.queue) :> v_max) @@ a.vel,
          queue |-> Tail(a.queue),
          admitted |-> a.admitted \cup {Head(a.queue)}]
    ELSE a

\* AdmitLane reading the oldest car of the queue without popping it.
AdmitLaneNoPop(a, lane) ==
    IF a.queue # <<>> /\ a.road[lane][0] = Empty
    THEN [road |-> [a.road EXCEPT ![lane][0] = Head(a.queue)],
          vel |-> (Head(a.queue) :> v_max) @@ a.vel,
          queue |-> a.queue,
          admitted |-> a.admitted \cup {Head(a.queue)}]
    ELSE a

\* AdmitLane popping the newest car of the queue instead of the oldest.
AdmitLaneNewest(a, lane) ==
    IF a.queue # <<>> /\ a.road[lane][0] = Empty
    THEN [road |-> [a.road EXCEPT ![lane][0] = a.queue[Len(a.queue)]],
          vel |-> (a.queue[Len(a.queue)] :> v_max) @@ a.vel,
          queue |-> SubSeq(a.queue, 1, Len(a.queue) - 1),
          admitted |-> a.admitted \cup {a.queue[Len(a.queue)]}]
    ELSE a

\* Lines 138-143 for one lane of the permutation.
AdmitLane(a, lane) ==
    IF a.queue # <<>> /\ a.road[lane][0] = Empty
    THEN [road |-> [a.road EXCEPT ![lane][0] = Head(a.queue)],
          vel |-> (Head(a.queue) :> v_max) @@ a.vel,
          queue |-> Tail(a.queue),
          admitted |-> a.admitted \cup {Head(a.queue)}]
    ELSE a

\* Lines 137-143: the admission loop over the lanes in the order perm, from
\* its i-th lane on.
RECURSIVE Admit(_, _, _)
Admit(i, perm, a) ==
    IF i >= lanes THEN a ELSE Admit(i + 1, perm, AdmitLane(a, perm[i]))

\* The values of np.random.permutation(lanes): the orders of the lanes.
LanePermutations == Permutations(LaneSet)

\* The outcomes of the draw of line 130 that matter: it is only open when the
\* remaining rate ends in a fraction of a vehicle.
Lucky(rate) == IF rate % EntryUnit = 0 THEN {FALSE} ELSE BOOLEAN

\* Lines 47-123: the outcomes of the loop over the cars, one for each outcome
\* of the cars' random draws.
MoveOutcomes ==
    {MoveCars(0, [road |-> ApplyClosures, vel |-> <<>>,
                  times |-> times_taken, exited |-> exited,
                  finalized |-> finalized, dawdled |-> FALSE], draws) :
        draws \in Draws(p, CarsOn(road))}

\* Lines 128-134: the outcomes of the generation loop.
GenerateOutcomes ==
    {Generate(entry_rate, [queue |-> entry_queue, starts |-> start_times,
                           next |-> next_car_id], lucky) :
        lucky \in Lucky(entry_rate)}

\* Lines 137-143: the outcomes of the admission loop after the outcomes m and
\* g of the two loops before it, one for each order of the lanes.
AdmitOutcomes(m, g) ==
    {Admit(0, perm, [road |-> m.road, vel |-> m.vel, queue |-> g.queue,
                     admitted |-> admitted]) :
        perm \in LanePermutations}

\* Line 45 for a closure in force on a lane the road does not have:
\* new_road[lane, :] raises IndexError.
ClosureOffRoad ==
    \E lane \in DOMAIN closing_end_times :
        lane \notin LaneSet /\ current_step < closing_end_times[lane]

\* step() raising at line 45: new_road is a local, nothing of the engine has
\* changed yet, the clock included.
step_raises ==
    /\ ClosureOffRoad
    /\ last_call' = "step_raised"
    /\ dawdled' = FALSE
    /\ switched' = <<>>
    /\ UNCHANGED <<engineVars, admitted, entered, exited, discarded, dropped, finalized,
                   closed_until>>

\* step(), lines 37-147: m is the outcome of the loop over the cars, g of the
\* generation loop, a of the admission loop.
step ==
    /\ current_step < step_cap
    /\ ~ClosureOffRoad
    /\ \E m \in MoveOutcomes :
       \E g \in GenerateOutcomes :
       \E a \in AdmitOutcomes(m, g) :
          /\ g.next <= car_cap
          /\ road' = a.road
          /\ velocities' = a.vel
          /\ entry_queue' = a.queue
          /\ admitted' = a.admitted
          /\ entered' = [c \in a.admitted \ admitted |-> current_step] @@ entered
          /\ start_times' = g.starts
          /\ next_car_id' = g.next
          /\ times_taken' = m.times
          /\ exited' = m.exited
          /\ finalized' = m.finalized
          /\ dawdled' = m.dawdled
          /\ switched' = [c \in {c \in CarsOn(road) \cap CarsOn(m.road) :
                                    LaneOf(m.road, c) # LaneOf(road, c)} |->
                            LaneOf(m.road, c) - LaneOf(road, c)]
    /\ current_step' = current_step + 1
    /\ last_call' = "step"
    /\ UNCHANGED <<road_length, v_max, lanes, multi_lane_rules, closing_end_times, p, entry_rate,
                   lag_parameter, discarded, dropped, closed_until>>

\* get_road(), line 151: the car ids replaced by their speeds.
get_road ==
    [l \in LaneSet |-> [x \in Positions |->
        IF road[l][x] >= 0
        THEN (IF road[l][x] \in DOMAIN velocities THEN velocities[road[l][x]] ELSE Empty)
        ELSE road[l][x]]]

\* reset_stats(), lines 157-159.
reset_stats ==
    /\ times_taken' = <<>>
    /\ dawdled' = FALSE
    /\ switched' = <<>>
    /\ last_call' = "reset_stats"
    /\ UNCHANGED <<road_length, v_max, lanes, multi_lane_rules, road, velocities, next_car_id, entry_queue,
                   current_step, start_times, closing_end_times, p, entry_rate,
                   lag_parameter, admitted, entered, exited, discarded, dropped, finalized,
                   closed_until>>

\* reset_queue that empties the ledger as well.
reset_queue_clearing_ledger ==
    /\ entry_queue' = <<>>
    /\ times_taken' = <<>>
    /\ dropped' = dropped \cup {entry_queue[i] : i \in 1 .. Len(entry_queue)}
    /\ dawdled' = FALSE
    /\ switched' = <<>>
    /\ last_call' = "reset_queue"
    /\ UNCHANGED <<road_length, v_max, lanes, multi_lane_rules, road, velocities, next_car_id,
                   current_step, start_times, closing_end_times, p, entry_rate,
                   lag_parameter, admitted, entered, exited, discarded, finalized, closed_until>>

\* reset_queue(), lines 161-163.
reset_queue ==
    /\ entry_queue' = <<>>
    /\ dropped' = dropped \cup {entry_queue[i] : i \in 1 .. Len(entry_queue)}
    /\ dawdled' = FALSE
    /\ switched' = <<>>
    /\ last_call' = "reset_queue"
    /\ UNCHANGED <<road_length, v_max, lanes, multi_lane_rules, road, velocities, next_car_id, times_taken,
                   current_step, start_times, closing_end_times, p, entry_rate,
                   lag_parameter, admitted, entered, exited, discarded, finalized, closed_until>>

\* set_parameters that also empties the entry queue.
set_parameters_dropping_queue(lag, rate) ==
    /\ lag_parameter' = <<lag>>
    /\ entry_rate' = rate
    /\ entry_queue' = <<>>
    /\ dawdled' = FALSE
    /\ switched' = <<>>
    /\ last_call' = "set_parameters"
    /\ UNCHANGED <<road_length, v_max, lanes, multi_lane_rules, road, velocities, next_car_id,
                   current_step, start_times, times_taken, closing_end_times, p,
                   admitted, entered, exited, discarded, dropped, finalized, closed_until>>

\* set_parameters(lag, rate), lines 165-168.
set_parameters(lag, rate) ==
    /\ lag_parameter' = <<lag>>
    /\ entry_rate' = rate
    /\ dawdled' = FALSE
    /\ switched' = <<>>
    /\ last_call' = "set_parameters"
    /\ UNCHANGED <<road_length, v_max, lanes, multi_lane_rules, road, velocities, next_car_id, entry_queue,
                   current_step, start_times, times_taken, closing_end_times, p,
                   admitted, entered, exited, discarded, dropped, finalized, closed_until>>

\* The cars in lane l of the road.
CarsInLane(l) == {road[l][x] : x \in Positions} \ {Empty, Closed}

\* The history of a close_lane(lane, duration) call.
CloseHistory(lane, duration) ==
    /\ discarded' = discarded \cup CarsInLane(lane)
    /\ closed_until' =
         (lane :> (IF lane \in DOMAIN closed_until
                   THEN Max(closed_until[lane], current_step + duration)
                   ELSE current_step + duration)) @@ closed_until
    /\ dawdled' = FALSE
    /\ switched' = <<>>
    /\ last_call' = "close_lane"
    /\ UNCHANGED <<admitted, entered, exited, dropped, finalized>>

\* close_lane recording the end step and leaving the road as it is.
close_lane_keeping_cars(lane, duration) ==
    /\ closing_end_times' = (lane :> (current_step + duration)) @@ closing_end_times
    /\ CloseHistory(lane, duration)
    /\ UNCHANGED <<road_length, v_max, lanes, multi_lane_rules, road, velocities, next_car_id, entry_queue,
                   current_step, start_times, times_taken, p, entry_rate, lag_parameter>>

\* close_lane(lane, duration), lines 170-175.
close_lane(lane, duration) ==
    /\ closing_end_times' = (lane :> (current_step + duration)) @@ closing_end_times
    /\ road' = [road EXCEPT ![lane] = [x \in Positions |-> Closed]]
    /\ CloseHistory(lane, duration)
    /\ UNCHANGED <<road_length, v_max, lanes, multi_lane_rules, velocities, next_car_id, entry_queue,
                   current_step, start_times, times_taken, p, entry_rate, lag_parameter>>

\* close_lane(lane, duration) for a lane index >= self.lanes: line 172 records
\* the end step, then line 175 raises IndexError and leaves the road as it is.
close_lane_raises(lane, duration) ==
    /\ lane >= lanes
    /\ closing_end_times' = (lane :> (current_step + duration)) @@ closing_end_times
    /\ last_call' = "close_lane_raised"
    /\ dawdled' = FALSE
    /\ switched' = <<>>
    /\ UNCHANGED <<road_length, v_max, lanes, multi_lane_rules, road, velocities, next_car_id,
                   entry_queue, current_step, start_times, times_taken, p, entry_rate,
                   lag_parameter, admitted, entered, exited, discarded, dropped, finalized,
                   closed_until>>

\* No rush-hour scenario is running.
NoRushhour ==
    /\ rh_pc = "idle"
    /\ rh_duration = 0
    /\ rh_given = <<>>
    /\ rh_parameters = <<>>
    /\ rh_next = 0
    /\ rh_executed = <<>>

\* No calibration is running next to the engine.
NoCalibration ==
    /\ target_travel_time = 0
    /\ convergence_range = 0
    /\ repetitions = 0
    /\ lag_parameter_min = 0
    /\ lag_parameter_max = 0
    /\ entry_rate_min = 0
    /\ entry_rate_max = 0
    /\ cal_pc = "idle"
    /\ cal_lag_parameter = 0
    /\ cal_entry_rate = 0
    /\ lag_parameter_step = 0
    /\ entry_rate_step = 0
    /\ dist = 0
    /\ counter = 0
    /\ indices = <<>>
    /\ sum_of_avg_travel_times = 0
    /\ collected = 0
    /\ iteration_bound = 0
    /\ futures = <<>>
    /\ completed = <<>>
    /\ result_travel_time = <<>>
    /\ result_lag_parameter = <<>>
    /\ result_entry_rate = <<>>
    /\ return_value = <<>>
    /\ proposed = <<>>

\* ------------------------------------------------- the engine, any caller
Init ==
    /\ \E n \in LaneCounts, rules \in BOOLEAN, lag \in LagValues, rate \in EntryRates :
         InitEngine(n, rules, lag, rate)
    /\ car_cap = MaxCars
    /\ step_cap = MaxStep
    /\ call_cap = MaxCalls
    /\ calls = 0
    /\ pc = "engine"
    /\ warmup_left = 0
    /\ steps_left = 0
    /\ window_start = 0
    /\ steps = 0
    /\ data = <<>>
    /\ run_log = <<>>
    /\ NoCalibration
    /\ NoRushhour

\* A control call between two steps; a run makes at most call_cap of them.
Call ==
    /\ calls < call_cap
    /\ calls' = calls + 1
    /\ UNCHANGED <<car_cap, step_cap, call_cap, pc, warmup_left, steps_left, window_start, steps,
                   data, run_log, calVars, rushVars>>

Step == step /\ UNCHANGED <<harnessVars, calVars, rushVars>>
ResetStats == reset_stats /\ Call
ResetQueue == reset_queue /\ Call
SetParameters ==
    /\ \E lag \in LagValues, rate \in EntryRates : set_parameters(lag, rate)
    /\ Call
CloseLane ==
    /\ \E lane \in LaneSet, duration \in Durations : close_lane(lane, duration)
    /\ Call

Next == Step \/ ResetStats \/ ResetQueue \/ SetParameters \/ CloseLane

Spec == Init /\ [][Next]_vars

\* ------------------------------------------ the engine on a road of 3 lanes
InitWide ==
    /\ \E n \in WideLaneCounts, lag \in LagValues, rate \in EntryRates :
         InitEngine(n, TRUE, lag, rate)
    /\ car_cap = WideCars
    /\ step_cap = MaxStep
    /\ call_cap = MaxCalls
    /\ calls = 0
    /\ pc = "engine"
    /\ warmup_left = 0
    /\ steps_left = 0
    /\ window_start = 0
    /\ steps = 0
    /\ data = <<>>
    /\ run_log = <<>>
    /\ NoCalibration
    /\ NoRushhour

SpecWide == InitWide /\ [][Next]_vars

\* ------------------------- the engine under steps and repeated closures
InitClosures ==
    /\ \E n \in LaneCounts, rules \in BOOLEAN, lag \in LagValues, rate \in EntryRates :
         InitEngine(n, rules, lag, rate)
    /\ car_cap = MaxCars
    /\ step_cap = MaxStep
    /\ call_cap = MaxCloses
    /\ calls = 0
    /\ pc = "engine"
    /\ warmup_left = 0
    /\ steps_left = 0
    /\ window_start = 0
    /\ steps = 0
    /\ data = <<>>
    /\ run_log = <<>>
    /\ NoCalibration
    /\ NoRushhour

NextClosures == Step \/ CloseLane

SpecClosures == InitClosures /\ [][NextClosures]_vars

\* ------------------------------ SimulationMultiple.run driving the engine
InitHarness ==
    /\ \E n \in LaneCounts, rules \in BOOLEAN, lag \in LagValues, rate \in EntryRates :
         InitEngine(n, rules, lag, rate)
    /\ car_cap = MaxCars
    /\ step_cap = MaxStep
    /\ call_cap = MaxCalls
    /\ calls = 0
    /\ pc = "warmup"
    /\ warmup_left \in 1 .. MaxWarmup
    /\ steps_left \in 1 .. MaxMeasure
    /\ window_start = 0
    /\ steps = steps_left
    /\ data = <<>>
    /\ run_log = <<>>
    /\ NoCalibration
    /\ NoRushhour

\* Lines 65-68: one warmup step.
RunWarmupStep ==
    /\ pc = "warmup"
    /\ warmup_left > 0
    /\ step
    /\ warmup_left' = warmup_left - 1
    /\ run_log' = Append(run_log, "step")
    /\ UNCHANGED <<car_cap, step_cap, call_cap, calls, pc, steps_left, window_start, steps, data,
                   calVars, rushVars>>

\* Line 74: reset_stats() after the last warmup step.
RunResetStats ==
    /\ pc = "warmup"
    /\ warmup_left = 0
    /\ reset_stats
    /\ pc' = "reset_queue"
    /\ window_start' = current_step
    /\ run_log' = Append(run_log, "reset_stats")
    /\ UNCHANGED <<car_cap, step_cap, call_cap, calls, warmup_left, steps_left, steps, data, calVars, rushVars>>

\* Lines 75-80: reset_queue(), then a fresh self.data with no row written.
RunResetQueue ==
    /\ pc = "reset_queue"
    /\ reset_queue
    /\ pc' = "measure"
    /\ data' = <<>>
    /\ run_log' = Append(run_log, "reset_queue")
    /\ UNCHANGED <<car_cap, step_cap, call_cap, calls, warmup_left, steps_left, window_start, steps,
                   calVars, rushVars>>

\* One pass of the measurement loop that saves the road after its step.
RunMeasuredStepSavingAfter ==
    /\ pc = "measure"
    /\ steps_left > 0
    /\ step
    /\ data' = Append(data, get_road')
    /\ run_log' = run_log \o <<"get_road", "step">>
    /\ steps_left' = steps_left - 1
    /\ UNCHANGED <<car_cap, step_cap, call_cap, calls, pc, warmup_left, window_start, steps, calVars, rushVars>>

\* Lines 81-86: one pass of the measurement loop, which saves get_road() as
\* the next row of self.data and then makes one step.
RunMeasuredStep ==
    /\ pc = "measure"
    /\ steps_left > 0
    /\ data' = Append(data, get_road)
    /\ step
    /\ run_log' = run_log \o <<"get_road", "step">>
    /\ steps_left' = steps_left - 1
    /\ UNCHANGED <<car_cap, step_cap, call_cap, calls, pc, warmup_left, window_start, steps, calVars, rushVars>>

\* Lines 87-89: the measurement loop has ended.
RunFinish ==
    /\ pc = "measure"
    /\ steps_left = 0
    /\ pc' = "done"
    /\ UNCHANGED <<engineVars, historyVars, car_cap, step_cap, call_cap, calls, warmup_left, steps_left,
                   window_start, steps, data, run_log, calVars, rushVars>>

NextHarness ==
    RunWarmupStep \/ RunResetStats \/ RunResetQueue \/ RunMeasuredStep \/ RunFinish

SpecHarness == InitHarness /\ [][NextHarness]_vars

\* -------------------------------- the engine under steps and the two resets
InitResets ==
    /\ \E n \in LaneCounts, rules \in BOOLEAN, lag \in LagValues, rate \in EntryRates :
         InitEngine(n, rules, lag, rate)
    /\ car_cap = ResetCars
    /\ step_cap = MaxStep
    /\ call_cap = MaxResets
    /\ calls = 0
    /\ pc = "engine"
    /\ warmup_left = 0
    /\ steps_left = 0
    /\ window_start = 0
    /\ steps = 0
    /\ data = <<>>
    /\ run_log = <<>>
    /\ NoCalibration
    /\ NoRushhour

NextResets == Step \/ ResetStats \/ ResetQueue

SpecResets == InitResets /\ [][NextResets]_vars

\* ------------------- the engine built from arguments outside their ranges
\* __init__ (lines 18-23) stores whatever it is given: lane counts below 1, lag
\* parameters outside 0..1 and negative entry rates included.
AnyLaneCounts == {0, 1}
AnyLagValues == {-50, 50, 150}
AnyEntryRates == {-1, 1, 3}

InitConstruct ==
    /\ \E n \in AnyLaneCounts, rules \in BOOLEAN, lag \in AnyLagValues,
          rate \in AnyEntryRates :
         InitEngine(n, rules, lag, rate)
    /\ car_cap = MaxCars
    /\ step_cap = MaxStep
    /\ call_cap = MaxCalls
    /\ calls = 0
    /\ pc = "engine"
    /\ warmup_left = 0
    /\ steps_left = 0
    /\ window_start = 0
    /\ steps = 0
    /\ data = <<>>
    /\ run_log = <<>>
    /\ NoCalibration
    /\ NoRushhour

SpecConstruct == InitConstruct /\ [][Next]_vars

\* ------------------- the engine under whole, fractional and zero entry rates
\* Entry rates of -0.5, 0, 0.5, 1 and 1.5 vehicles per step, in halves of a
\* vehicle.
AllEntryRates == {-1, 0, 1, 2, 3}

InitEntry ==
    /\ \E n \in LaneCounts, lag \in LagValues, rate \in AllEntryRates :
         InitEngine(n, TRUE, lag, rate)
    /\ car_cap = EntryCars
    /\ step_cap = MaxStep
    /\ call_cap = MaxCalls
    /\ calls = 0
    /\ pc = "engine"
    /\ warmup_left = 0
    /\ steps_left = 0
    /\ window_start = 0
    /\ steps = 0
    /\ data = <<>>
    /\ run_log = <<>>
    /\ NoCalibration
    /\ NoRushhour

SetEntryRate ==
    /\ \E rate \in AllEntryRates : set_parameters(p, rate)
    /\ Call

NextEntry == Step \/ SetEntryRate

SpecEntry == InitEntry /\ [][NextEntry]_vars

\* =============================================== Calibration (Calibration.py)
\* Line 60: dist starts at math.inf, above every distance.
Infinity == 1000000
\* Line 64: the hard break criterion.
IterationCap == 100
\* Line 101: the step multipliers are kept in thousandths.
MultScale == 1000

\* The configurations under test: target and tolerance in seconds, repetitions,
\* and the <<min, max>> bounds of the two parameters in ticks.
TargetTimes == {10}
ConvergenceRanges == {1}
Repetitions == {2}
DefaultBounds == {<<0, 100>>}
LagBounds == {<<0, 100>>}
RateBounds == {<<0, 100>>, <<100, 200>>}
\* The arguments of calibrate: <<>> is None, <<x>> a value the caller supplies.
CallerLags == {<<>>, <<100>>}
CallerRates == {<<>>}
CallerSteps == {<<>>, <<0>>, <<40>>}
Ratios == {1, 2}
\* The averaged travel times a worker's simulation can return, in seconds.
TravelTimes == {8, 14}

Abs(x) == IF x < 0 THEN -x ELSE x

\* Lines 50 and 52: the default starting value of a parameter.
DefaultStart(lo, hi) == (hi - lo) \div 3

\* Line 56: the default step of the lag parameter.
DefaultLagStep(lo, hi, ratio) == (hi - lo) \div (10 * ratio)

\* Line 58: the default step of the entry rate, (max - min) / (10 / ratio).
DefaultRateStep(lo, hi, ratio) == ((hi - lo) * ratio) \div 10

\* The loop condition without the iteration cap.
LoopIgnoringCap(d, n) == d > convergence_range

\* Line 64: the loop condition.
LoopContinues(d, n) == d > convergence_range /\ n < IterationCap

\* The sum of the repetitions taken for their average.
AverageUndivided(total, n) == total

\* Line 73: the average over the repetitions.
Average(total, n) == total \div n

\* Line 77: the distance to the target.
Distance(t, target) == Abs(t - target)

\* Line 86: sign_mult.
SignMult(is_larger) == IF is_larger THEN -1 ELSE 1

\* The pair after the update saved as the result.
ResultParameterProposed(evaluated, next) == next

\* Lines 81-82 run before the update of lines 89-98: the parameter saved as
\* the result is the one the simulations of this iteration ran with.
ResultParameter(evaluated, next) == evaluated

\* A proposal that always adds the step.
ProposalIgnoringSign(x, sign, size) == x + size

\* Lines 90 and 96: the parameter moved by its step, before clamping.
Proposal(x, sign, size) == x + sign * size

\* Clamping to the upper bound only.
ClampUpperOnly(x, lo, hi) == Min(x, hi)

\* Lines 91 and 97: clamping to the configured bounds.
Clamp(x, lo, hi) == Max(Min(x, hi), lo)

\* The two multipliers of line 101 taken the other way round.
StepMultSwapped(n, improved) == IF improved THEN 1100 - n ELSE 900 - 5 * n

\* Line 101: step_mult in thousandths, 0.9 - 0.5 * counter / 100 after an
\* iteration that did not get worse and 1.1 - 0.1 * counter / 100 otherwise.
StepMult(n, improved) == IF improved THEN 900 - 5 * n ELSE 1100 - n

\* NextStepSize without the floor.
NextStepSizeUnfloored(size, mult, lo, hi) == (size * mult) \div MultScale

\* Lines 102-105: the step size for the next iteration, at least 1% of the range.
NextStepSize(size, mult, lo, hi) == Max((size * mult) \div MultScale, (hi - lo) \div 100)

\* calibrate(...), lines 48-61: defaults, dist and counter.
calibrate_begin(lag, rate, lag_step, rate_step, ratio) ==
    /\ cal_pc = "call"
    /\ cal_lag_parameter' =
         IF lag = <<>> THEN DefaultStart(lag_parameter_min, lag_parameter_max) ELSE lag[1]
    /\ cal_entry_rate' =
         IF rate = <<>> THEN DefaultStart(entry_rate_min, entry_rate_max) ELSE rate[1]
    /\ lag_parameter_step' =
         IF lag_step = <<>>
         THEN DefaultLagStep(lag_parameter_min, lag_parameter_max, ratio)
         ELSE lag_step[1]
    /\ entry_rate_step' =
         IF rate_step = <<>>
         THEN DefaultRateStep(entry_rate_min, entry_rate_max, ratio)
         ELSE rate_step[1]
    /\ dist' = Infinity
    /\ counter' = 0
    /\ cal_pc' = "while"
    /\ UNCHANGED <<indices, sum_of_avg_travel_times, collected, iteration_bound, calConfig,
                   calResult>>

\* Lines 64-69: the loop condition and, when it holds, the start of an
\* iteration: the counter, the sum and the argument tuples of the workers.
while_test ==
    /\ cal_pc = "while"
    /\ IF LoopContinues(dist, counter)
       THEN /\ counter' = counter + 1
            /\ sum_of_avg_travel_times' = 0
            /\ indices' = [i \in 1 .. repetitions |-> <<cal_lag_parameter, cal_entry_rate>>]
            /\ collected' = 0
            /\ cal_pc' = "map"
       ELSE /\ cal_pc' = "exit"
            /\ UNCHANGED <<counter, sum_of_avg_travel_times, indices, collected>>
    /\ UNCHANGED <<cal_lag_parameter, cal_entry_rate, lag_parameter_step, entry_rate_step,
                   dist, iteration_bound, calConfig, calResult>>

\* Lines 71-72: the next result of executor.map, in the order of submission;
\* value is what run_simulation returned for indices[collected + 1].
collect(value) ==
    /\ cal_pc = "map"
    /\ collected < repetitions
    /\ sum_of_avg_travel_times' = sum_of_avg_travel_times + value
    /\ collected' = collected + 1
    /\ UNCHANGED <<cal_pc, cal_lag_parameter, cal_entry_rate, lag_parameter_step,
                   entry_rate_step, dist, counter, indices, iteration_bound, calConfig,
                   calResult>>

\* A fault of run_simulation passed over: the sample is left out of the sum
\* and the iteration goes on with the remaining ones.
worker_fault_skipped ==
    /\ cal_pc = "map"
    /\ collected < repetitions
    /\ collected' = collected + 1
    /\ UNCHANGED <<cal_pc, cal_lag_parameter, cal_entry_rate, lag_parameter_step,
                   entry_rate_step, dist, counter, indices, sum_of_avg_travel_times,
                   iteration_bound, calConfig, calResult>>

\* Line 71: the next result of executor.map is a fault of run_simulation, which
\* leaves the loop, the with block and calibrate.
worker_raises ==
    /\ cal_pc = "map"
    /\ collected < repetitions
    /\ cal_pc' = "raised"
    /\ UNCHANGED <<cal_lag_parameter, cal_entry_rate, lag_parameter_step, entry_rate_step,
                   dist, counter, indices, sum_of_avg_travel_times, collected,
                   iteration_bound, calConfig, calResult>>

\* Lines 73-112: the rest of an iteration once all results are summed.
update ==
    /\ cal_pc = "map"
    /\ collected = repetitions
    /\ LET t == Average(sum_of_avg_travel_times, repetitions)
           d == Distance(t, target_travel_time)
           sign_mult == SignMult(t > target_travel_time)
           lag_raw == Proposal(cal_lag_parameter, sign_mult, lag_parameter_step)
           lag_new == Clamp(lag_raw, lag_parameter_min, lag_parameter_max)
           rate_raw == Proposal(cal_entry_rate, sign_mult, entry_rate_step)
           rate_new == Clamp(rate_raw, entry_rate_min, entry_rate_max)
           step_mult == StepMult(counter, d <= dist)
       IN /\ result_travel_time' = <<t>>
          /\ dist' = d
          /\ result_lag_parameter' = <<ResultParameter(cal_lag_parameter, lag_new)>>
          /\ result_entry_rate' = <<ResultParameter(cal_entry_rate, rate_new)>>
          /\ proposed' = <<lag_raw, rate_raw>>
          /\ cal_lag_parameter' = lag_new
          /\ cal_entry_rate' = rate_new
          /\ lag_parameter_step' =
               NextStepSize(lag_parameter_step, step_mult, lag_parameter_min, lag_parameter_max)
          /\ entry_rate_step' =
               NextStepSize(entry_rate_step, step_mult, entry_rate_min, entry_rate_max)
          /\ cal_pc' = IF lag_new = cal_lag_parameter /\ rate_new = cal_entry_rate
                       THEN "exit"
                       ELSE "while"
    /\ UNCHANGED <<counter, indices, sum_of_avg_travel_times, collected, iteration_bound,
                   calConfig, return_value>>

\* The end of calibrate after the loop: the function has no return statement,
\* so its caller gets None.
calibrate_return ==
    /\ cal_pc = "exit"
    /\ cal_pc' = "returned"
    /\ return_value' = <<>>
    /\ UNCHANGED <<cal_lag_parameter, cal_entry_rate, lag_parameter_step, entry_rate_step,
                   dist, counter, indices, sum_of_avg_travel_times, collected,
                   iteration_bound, calConfig, result_travel_time, result_lag_parameter,
                   result_entry_rate, proposed>>

\* The coordinator holds no engine: the simulations run in the workers.
NoEngine ==
    /\ InitEngine(1, FALSE, 0, 0)
    /\ car_cap = 0
    /\ step_cap = MaxStep
    /\ call_cap = 0
    /\ calls = 0
    /\ pc = "calibration"
    /\ warmup_left = 0
    /\ steps_left = 0
    /\ window_start = 0
    /\ steps = 0
    /\ data = <<>>
    /\ run_log = <<>>

\* Calibration.__init__, lines 27-36, for the given bounds of the two
\* parameters, and a calibrate call about to start.
InitSearch(lag_bounds, rate_bounds, bound) ==
    /\ NoEngine
    /\ NoRushhour
    /\ target_travel_time \in TargetTimes
    /\ convergence_range \in ConvergenceRanges
    /\ repetitions \in Repetitions
    /\ \E b \in lag_bounds : lag_parameter_min = b[1] /\ lag_parameter_max = b[2]
    /\ \E b \in rate_bounds : entry_rate_min = b[1] /\ entry_rate_max = b[2]
    /\ cal_pc = "call"
    /\ cal_lag_parameter = 0
    /\ cal_entry_rate = 0
    /\ lag_parameter_step = 0
    /\ entry_rate_step = 0
    /\ dist = 0
    /\ counter = 0
    /\ indices = <<>>
    /\ sum_of_avg_travel_times = 0
    /\ collected = 0
    /\ iteration_bound = bound
    /\ futures = <<>>
    /\ completed = <<>>
    /\ result_travel_time = <<>>
    /\ result_lag_parameter = <<>>
    /\ result_entry_rate = <<>>
    /\ return_value = <<>>
    /\ proposed = <<>>

\* What a calibration leaves alone.
engineSide == <<engineVars, historyVars, harnessVars, rushVars>>

\* calibrate() called without arguments.
CalibrateDefaults ==
    /\ calibrate_begin(<<>>, <<>>, <<>>, <<>>, 1)
    /\ UNCHANGED <<engineSide, calWorkers>>
\* calibrate(...) called with the arguments under test.
CalibrateBegin ==
    /\ \E lag \in CallerLags, rate \in CallerRates, lag_step \in CallerSteps,
          rate_step \in CallerSteps, ratio \in Ratios :
         calibrate_begin(lag, rate, lag_step, rate_step, ratio)
    /\ UNCHANGED <<engineSide, calWorkers>>
\* The run follows the loop as long as its iteration bound allows.
WithinIterationBound == LoopContinues(dist, counter) => counter < iteration_bound
\* In the searches below a worker is only seen through what executor.map
\* yields for it: its result or its fault, in the order of submission.
WhileTest ==
    /\ WithinIterationBound
    /\ while_test
    /\ UNCHANGED <<engineSide, calWorkers>>
Collect == (\E value \in TravelTimes : collect(value)) /\ UNCHANGED <<engineSide, calWorkers>>
WorkerRaises == worker_raises /\ UNCHANGED <<engineSide, calWorkers>>
Update == update /\ UNCHANGED <<engineSide, calWorkers>>
CalibrateReturn == calibrate_return /\ UNCHANGED <<engineSide, calWorkers>>

\* --------------- a whole search from the default start, up to the hard cap
\* The run may go one iteration beyond the cap of the code.
InitCalibration == InitSearch(DefaultBounds, DefaultBounds, IterationCap + 1)

NextCalibration ==
    CalibrateDefaults \/ WhileTest \/ Collect \/ WorkerRaises \/ Update \/ CalibrateReturn

SpecCalibration == InitCalibration /\ [][NextCalibration]_vars

\* Every worker returns or raises, and the coordinator goes on whenever it can.
FairSpecCalibration == SpecCalibration /\ WF_vars(NextCalibration)

\* ------- the first iterations of a search, for all the arguments under test
InitIterations == InitSearch(LagBounds, RateBounds, MaxIterations)

NextIterations ==
    CalibrateBegin \/ WhileTest \/ Collect \/ WorkerRaises \/ Update \/ CalibrateReturn

SpecIterations == InitIterations /\ [][NextIterations]_vars

\* ------------ the workers of the process pool, finishing in any order
\* Line 71: executor.map submits one call of run_simulation per tuple of
\* indices before it yields anything; a future keeps the tuple it was made for.
executor_map(args) ==
    [i \in DOMAIN args |-> [args |-> args[i], state |-> "running", value |-> 0]]

\* A future counted as done whatever its state.
DoneAlways(f) == TRUE

\* A future is done once its worker has returned or raised.
Done(f) == f.state # "running"

\* Lines 114-120 in worker i: run_simulation returns the averaged travel time.
run_simulation(i, value) ==
    /\ cal_pc = "map"
    /\ i \in DOMAIN futures
    /\ futures[i].state = "running"
    /\ futures' = [futures EXCEPT ![i] = [@ EXCEPT !.state = "result", !.value = value]]
    /\ completed' = Append(completed, i)

\* Lines 114-120 in worker i: run_simulation raises, as get_stats does for a
\* run in which no vehicle left the road (np.min of an empty ledger).
run_simulation_raises(i) ==
    /\ cal_pc = "map"
    /\ i \in DOMAIN futures
    /\ futures[i].state = "running"
    /\ futures' = [futures EXCEPT ![i] = [@ EXCEPT !.state = "exception"]]
    /\ completed' = Append(completed, i)

\* The position of the future whose outcome executor.map yields next.
NextFuture == collected + 1

\* Lines 64-71: the loop test and, when an iteration starts, its dispatch.
Dispatch ==
    /\ WithinIterationBound
    /\ while_test
    /\ IF cal_pc' = "map"
       THEN futures' = executor_map(indices') /\ completed' = <<>>
       ELSE UNCHANGED calWorkers
    /\ UNCHANGED engineSide

WorkerReturns ==
    /\ \E i \in DOMAIN futures, value \in TravelTimes : run_simulation(i, value)
    /\ UNCHANGED <<engineSide, calConfig, calLocals, calResult>>

WorkerFaults ==
    /\ \E i \in DOMAIN futures : run_simulation_raises(i)
    /\ UNCHANGED <<engineSide, calConfig, calLocals, calResult>>

\* Lines 71-72: executor.map yields the results in the order of submission and
\* waits for the next future to be done.
NextResult ==
    /\ NextFuture \in DOMAIN futures
    /\ Done(futures[NextFuture])
    /\ futures[NextFuture].state # "exception"
    /\ collect(futures[NextFuture].value)
    /\ UNCHANGED <<engineSide, calWorkers>>

\* Line 71: the next future holds a fault, which executor.map raises again.
NextFault ==
    /\ NextFuture \in DOMAIN futures
    /\ Done(futures[NextFuture])
    /\ futures[NextFuture].state = "exception"
    /\ worker_raises
    /\ UNCHANGED <<engineSide, calWorkers>>

InitWorkers == InitSearch(DefaultBounds, DefaultBounds, MaxIterations)

NextWorkers ==
    \/ CalibrateDefaults
    \/ Dispatch
    \/ WorkerReturns
    \/ WorkerFaults
    \/ NextResult
    \/ NextFault
    \/ Update
    \/ CalibrateReturn

SpecWorkers == InitWorkers /\ [][NextWorkers]_vars

\* Every worker returns or raises, and the coordinator goes on whenever it can.
FairSpecWorkers == SpecWorkers /\ WF_vars(NextWorkers)

\* -------------------------- two lanes on a road longer than 2 * v_max
\* The road lengths on which a vehicle can be slowed by one ahead of it while
\* another one, in the left lane, is within v_max cells behind it.
LongRoadLengths == {RoadLength + 1}
\* The maximum speeds for those roads.
LowSpeeds == {VMax}

InitLanes ==
    /\ \E len \in LongRoadLengths, speed \in LowSpeeds, rules \in BOOLEAN,
          lag \in LagValues, rate \in EntryRates :
         InitRoad(len, speed, 2, rules, lag, rate)
    /\ car_cap = EntryCars
    /\ step_cap = MaxStep + 1
    /\ call_cap = 0
    /\ calls = 0
    /\ pc = "engine"
    /\ warmup_left = 0
    /\ steps_left = 0
    /\ window_start = 0
    /\ steps = 0
    /\ data = <<>>
    /\ run_log = <<>>
    /\ NoCalibration
    /\ NoRushhour

NextLanes == Step

SpecLanes == InitLanes /\ [][NextLanes]_vars

\* -------------------------------------------- the free-flow regime
\* One lane, no dawdling, one new vehicle per step, no closures: roads long
\* enough that the travel time road_length / v_max differs from the time
\* between two exits.
FreeFlowLengths == {2 * RoadLength, 3 * RoadLength, 4 * RoadLength}
FreeFlowSpeeds == {VMax, VMax + 1}
FreeFlowSteps == 4 * MaxStep

InitFreeFlow ==
    /\ \E len \in FreeFlowLengths, speed \in FreeFlowSpeeds, rules \in BOOLEAN :
         InitRoad(len, speed, 1, rules, 0, EntryUnit)
    /\ car_cap = FreeFlowSteps
    /\ step_cap = FreeFlowSteps
    /\ call_cap = 0
    /\ calls = 0
    /\ pc = "engine"
    /\ warmup_left = 0
    /\ steps_left = 0
    /\ window_start = 0
    /\ steps = 0
    /\ data = <<>>
    /\ run_log = <<>>
    /\ NoCalibration
    /\ NoRushhour

NextFreeFlow == Step

SpecFreeFlow == InitFreeFlow /\ [][NextFreeFlow]_vars

\* ------------------------------- close_lane with lane indices off the road
\* The lane indices a caller may pass: those of the road and the first one
\* beyond it.
AnyLaneIndices == 0 .. lanes

InitMissingLane ==
    /\ \E n \in LaneCounts, rules \in BOOLEAN, lag \in LagValues, rate \in EntryRates :
         InitEngine(n, rules, lag, rate)
    /\ car_cap = MaxCars
    /\ step_cap = MaxStep
    /\ call_cap = MaxCalls
    /\ calls = 0
    /\ pc = "engine"
    /\ warmup_left = 0
    /\ steps_left = 0
    /\ window_start = 0
    /\ steps = 0
    /\ data = <<>>
    /\ run_log = <<>>
    /\ NoCalibration
    /\ NoRushhour

CloseAnyLane ==
    /\ \E lane \in AnyLaneIndices, duration \in Durations :
         IF lane \in LaneSet THEN close_lane(lane, duration) ELSE close_lane_raises(lane, duration)
    /\ Call

StepRaises == step_raises /\ current_step < step_cap /\ UNCHANGED <<harnessVars, calVars, rushVars>>

NextMissingLane == Step \/ StepRaises \/ CloseAnyLane

SpecMissingLane == InitMissingLane /\ [][NextMissingLane]_vars

\* ================================== ScenarioRushour (ScenarioRushhour.py)
\* A schedule tuple is <<start, end, label>>: the label stands for the pair
\* (lag_parameter, entry_rate) of the tuple, DefaultLabel for the pair of the
\* scenario's constructor.
DefaultLabel == 0

\* The intervals [start, end) a caller can name inside [0, ScheduleDuration).
Intervals ==
    {se \in (0 .. ScheduleDuration) \X (0 .. ScheduleDuration) : se[1] < se[2]}

\* Two intervals share no time offset.
Disjoint(a, b) == a[2] <= b[1] \/ b[2] <= a[1]

\* The lists of pairwise non-overlapping tuples a caller can pass, in any
\* order, the i-th tuple carrying the label i.
Schedules ==
    UNION {{[i \in 1 .. n |-> <<f[i][1], f[i][2], i>>] :
              f \in {g \in [1 .. n -> Intervals] :
                        \A i, j \in 1 .. n : i # j => Disjoint(g[i], g[j])}} :
           n \in 0 .. MaxIntervals}

\* sorted(..., key=lambda x: x[0]) is stable: t goes behind every tuple of the
\* sorted list s that does not start later.
RECURSIVE InsertByStart(_, _)
InsertByStart(t, s) ==
    IF s = <<>> \/ s[Len(s)][1] <= t[1]
    THEN Append(s, t)
    ELSE Append(InsertByStart(t, SubSeq(s, 1, Len(s) - 1)), s[Len(s)])

RECURSIVE SortedFrom(_, _, _)
SortedFrom(seq, k, acc) ==
    IF k > Len(seq) THEN acc ELSE SortedFrom(seq, k + 1, InsertByStart(seq[k], acc))

\* Lines 59 and 82: the list sorted by start time.
SortedByStart(seq) == SortedFrom(seq, 1, <<>>)

\* The loop of lines 63-70 from the pair (k, k + 1) of the n given tuples on.
\* acc.ps is the list, which grows by the gaps found; acc.first and acc.last
\* are the locals first_entry_start and last_entry_end, <<>> while unbound.
\* parameters[-1] of line 65 is the last tuple of the list as it is then.
RECURSIVE FillGaps(_, _, _)
FillGaps(acc, k, n) ==
    IF k >= n
    THEN acc
    ELSE LET start == acc.ps[k][2]
             end == acc.ps[k + 1][1]
         IN FillGaps([ps |-> IF end - start > 0
                              THEN Append(acc.ps, <<start, end, DefaultLabel>>)
                              ELSE acc.ps,
                      first |-> <<acc.ps[1][1]>>,
                      last |-> <<acc.ps[Len(acc.ps)][2]>>],
                     k + 1, n)

\* Lines 73-76: the default tuples before the first and after the last entry.
AddEnds(acc, duration) ==
    LET front == IF acc.first[1] > 0
                 THEN Append(acc.ps, <<0, acc.first[1], DefaultLabel>>)
                 ELSE acc.ps
    IN IF acc.last[1] < duration
       THEN Append(front, <<acc.last[1], duration, DefaultLabel>>)
       ELSE front

\* _calculate_parameters(duration, parameters), lines 52-82: the list it
\* returns, or raised when line 73 reads first_entry_start before any
\* iteration of the loop has bound it (UnboundLocalError).
calculate_parameters(duration, parameters) ==
    IF parameters = <<>>
    THEN [raised |-> FALSE, value |-> <<<<0, duration, DefaultLabel>>>>]
    ELSE LET acc == FillGaps([ps |-> SortedByStart(parameters), first |-> <<>>,
                              last |-> <<>>], 1, Len(parameters))
         IN IF acc.first = <<>>
            THEN [raised |-> TRUE, value |-> <<>>]
            ELSE [raised |-> FALSE, value |-> SortedByStart(AddEnds(acc, duration))]

\* range(start, end) of line 99 as a sequence.
Range(start, end) == [i \in 1 .. (IF end > start THEN end - start ELSE 0) |-> start + i - 1]

\* run(duration, parameters), line 91. The engine of the scenario is its own
\* object (self.model); of the calls made on it only the step() of line 107
\* is kept, as the time offset that made it.
rush_calculate ==
    /\ rh_pc = "call"
    /\ LET r == calculate_parameters(rh_duration, rh_given)
       IN /\ rh_pc' = IF r.raised THEN "raised" ELSE "run"
          /\ rh_parameters' = r.value
    /\ rh_next' = 1
    /\ UNCHANGED <<rh_duration, rh_given, rh_executed>>

\* One tuple of the loop of lines 97-107.
rush_interval ==
    /\ rh_pc = "run"
    /\ rh_next <= Len(rh_parameters)
    /\ rh_executed' = rh_executed \o Range(rh_parameters[rh_next][1], rh_parameters[rh_next][2])
    /\ rh_next' = rh_next + 1
    /\ UNCHANGED <<rh_pc, rh_duration, rh_given, rh_parameters>>

\* Line 108: the loop is done.
rush_finish ==
    /\ rh_pc = "run"
    /\ rh_next > Len(rh_parameters)
    /\ rh_pc' = "done"
    /\ UNCHANGED <<rh_duration, rh_given, rh_parameters, rh_next, rh_executed>>

InitRushhour ==
    /\ NoEngine
    /\ NoCalibration
    /\ rh_pc = "call"
    /\ rh_duration = ScheduleDuration
    /\ rh_given \in Schedules
    /\ rh_parameters = <<>>
    /\ rh_next = 0
    /\ rh_executed = <<>>

RushCalculate == rush_calculate /\ UNCHANGED <<engineVars, historyVars, harnessVars, calVars>>
RushInterval == rush_interval /\ UNCHANGED <<engineVars, historyVars, harnessVars, calVars>>
RushFinish == rush_finish /\ UNCHANGED <<engineVars, historyVars, harnessVars, calVars>>

NextRushhour == RushCalculate \/ RushInterval \/ RushFinish

SpecRushhour == InitRushhour /\ [][NextRushhour]_vars

\* ================================================================ claims
\* C1: every vehicle that was admitted onto the road and has neither left over
\* the road end nor been in a lane when close_lane hit it occupies exactly one
\* cell: no step overwrites a vehicle with another one.
C1_NoVehicleLost ==
    \A c \in admitted \ (exited \cup discarded) : Cardinality(CellsOf(road, c)) = 1

\* C2: every cell holds Empty, Closed or one vehicle identifier, no identifier
\* is in more than one cell, and the vehicles on the grid number at most
\* lanes * road_length.
C2_Occupancy ==
    /\ \A l \in LaneSet, x \in Positions : road[l][x] \in {Empty, Closed} \cup Nat
    /\ \A c \in CarsOn(road) : Cardinality(CellsOf(road, c)) = 1
    /\ Cardinality(CarsOn(road)) <= lanes * road_length

\* Two vehicles are on the road, admitted in one step onto two lanes.
C2_Witness ==
    /\ lanes = 2
    /\ road[0][0] >= 0
    /\ road[1][0] >= 0

\* C3: every vehicle on the grid has a speed, and it is between 0 and v_max.
C3_SpeedBound ==
    \A c \in CarsOn(road) :
        /\ c \in DOMAIN velocities
        /\ 0 <= velocities[c]
        /\ velocities[c] <= v_max

\* A vehicle stands still behind another one while a fresh one drives at v_max.
C3_Witness ==
    \E c, d \in CarsOn(road) : velocities[c] = 0 /\ velocities[d] = v_max

\* C4: every duration in the ledger is strictly positive, and no vehicle
\* identifier is written to the ledger more than once, reset_stats() calls in
\* between included.
C4_Ledger ==
    /\ \A c \in DOMAIN times_taken : times_taken[c] > 0
    /\ \A c \in DOMAIN finalized : finalized[c] = 1

\* One vehicle was recorded before a reset_stats() and another one after it.
C4_Witness ==
    \E c \in DOMAIN finalized, d \in DOMAIN times_taken : c \notin DOMAIN times_taken

\* C5 as claimed: whatever end step a close_lane call on a lane named, the lane
\* holds no vehicle before the clock reaches it.
C5_ClosureEnforced ==
    \A l \in DOMAIN closed_until :
        current_step < closed_until[l] => CarsInLane(l) = {}

\* C5, amended: a lane holds no vehicle while the clock is below the end step
\* recorded for it, which is the one of the latest close_lane call on it.
C5_LatestClosureEnforced ==
    \A l \in DOMAIN closing_end_times :
        current_step < closing_end_times[l] => CarsInLane(l) = {}

\* A step has run under a closure in force, and a vehicle is left waiting in the
\* queue although the closed lane's entry cell holds no vehicle.
C5_Witness ==
    \E l \in DOMAIN closing_end_times :
        /\ current_step < closing_end_times[l]
        /\ last_call = "step"
        /\ entry_queue # <<>>

\* C6: after set_parameters(0, e) no step slows a vehicle by chance.
C6_NoDawdleAfterZero == lag_parameter = <<0>> => ~dawdled

\* C7: at the end of SimulationMultiple.run every vehicle in the ledger was
\* generated in the measurement window, after the reset.
C7_MeasurementWindow ==
    pc = "done" => \A c \in DOMAIN times_taken : start_times[c] >= window_start

\* C8: a vehicle discarded by close_lane is not on the road, not in the queue
\* and never gets a travel time.
C8_DiscardedNeverRecorded ==
    \A c \in discarded :
        /\ CellsOf(road, c) = {}
        /\ c \notin DOMAIN times_taken
        /\ c \notin DOMAIN finalized
        /\ \A i \in 1 .. Len(entry_queue) : entry_queue[i] # c

\* A vehicle was discarded, and a later step recorded another vehicle.
C8_Witness ==
    /\ discarded # {}
    /\ times_taken # <<>>
    /\ last_call = "step"

\* C9: no speed and no entry time is kept for a discarded vehicle.
C9_NoDataLeft ==
    \A c \in discarded : c \notin DOMAIN velocities /\ c \notin DOMAIN start_times

\* C10 as claimed: a set_parameters or close_lane call leaves the road
\* snapshot, the ledger, the queue and the clock as they were.
C10_CallsDeferred ==
    [][last_call' \in {"set_parameters", "close_lane"} =>
          /\ get_road' = get_road
          /\ times_taken' = times_taken
          /\ entry_queue' = entry_queue
          /\ current_step' = current_step]_vars

\* C10, amended: set_parameters leaves the snapshot, the ledger, the queue, the
\* clock and the entry times as they were; close_lane does so except for the
\* closed lane, whose cells all show the closed marker at once.
C10_CallFrame ==
    [][/\ last_call' \in {"set_parameters", "close_lane"} =>
             /\ times_taken' = times_taken
             /\ entry_queue' = entry_queue
             /\ current_step' = current_step
             /\ start_times' = start_times
       /\ last_call' = "set_parameters" => get_road' = get_road
       /\ last_call' = "close_lane" =>
             \E closed \in LaneSet :
                 /\ get_road'[closed] = [x \in Positions |-> Closed]
                 /\ \A l \in LaneSet \ {closed} : get_road'[l] = get_road[l]]_vars

\* A close_lane call has just removed a vehicle from the snapshot while a
\* vehicle waits in the queue.
C10_Witness ==
    /\ last_call = "close_lane"
    /\ \E c \in discarded : c \in DOMAIN velocities
    /\ entry_queue # <<>>

\* C11: reset_stats() empties the ledger and leaves the grid, the speeds, the
\* queue, the closures, the clock and the next identifier as they were;
\* reset_queue() empties the queue and leaves the grid, the speeds, the ledger,
\* the closures, the clock and the next identifier as they were; a vehicle
\* dropped from the queue is never on the road, in the queue or in the ledger.
C11_ResetFrames ==
    [][/\ last_call' = "reset_stats" =>
             /\ times_taken' = <<>>
             /\ UNCHANGED <<road, velocities, entry_queue, closing_end_times,
                            current_step, next_car_id>>
       /\ last_call' = "reset_queue" =>
             /\ entry_queue' = <<>>
             /\ UNCHANGED <<road, velocities, times_taken, closing_end_times,
                            current_step, next_car_id>>
       /\ \A c \in dropped' :
             /\ c \notin CarsOn(road')
             /\ c \notin admitted'
             /\ c \notin DOMAIN times_taken'
             /\ c \notin DOMAIN finalized'
             /\ \A i \in 1 .. Len(entry_queue') : entry_queue'[i] # c]_vars

\* A vehicle was dropped from the queue by reset_queue(), later steps have run
\* and recorded a travel time, and reset_stats() has just emptied that ledger.
C11_Witness ==
    /\ dropped # {}
    /\ \E c \in DOMAIN finalized : c \notin DOMAIN times_taken
    /\ last_call = "reset_stats"

\* C12: no engine exists whose lane count is below 1, whose lag parameter is
\* outside 0..1 or whose entry rate is negative.
C12_ValidArguments ==
    /\ lanes >= 1
    /\ 0 <= p
    /\ p <= Certain
    /\ entry_rate >= 0

\* The fewest vehicles one step generates at the current entry rate.
LeastGenerated == IF entry_rate <= 0 THEN 0 ELSE entry_rate \div EntryUnit

\* The run has not used up its steps and its vehicles.
WithinRunBounds ==
    /\ current_step < step_cap
    /\ next_car_id + LeastGenerated <= car_cap

\* The loops of step() all have an outcome the run's vehicle bound admits.
StepCompletes ==
    \E m \in MoveOutcomes, g \in GenerateOutcomes :
        g.next <= car_cap /\ AdmitOutcomes(m, g) # {}

\* C13: in every state reached by steps, resets, set_parameters and close_lane
\* calls, step() can be called again and completes (as long as the run's bounds
\* allow one more step), and every step() increases the clock by exactly one.
C13_StepCallable ==
    /\ [](WithinRunBounds => StepCompletes)
    /\ [][last_call' = "step" => current_step' = current_step + 1]_vars

\* A step has run after a close_lane call that discarded a vehicle, and the
\* next step can run.
C13_Witness ==
    /\ last_call = "step"
    /\ discarded # {}
    /\ calls > 0
    /\ WithinRunBounds

\* C14: identifiers are given in the order of generation, so a was enqueued
\* before b exactly if a < b. Every vehicle generated before an admitted one was
\* admitted itself or removed by reset_queue(); none of them is still waiting,
\* and the queue holds the waiting vehicles in the order of their generation.
C14_FifoAdmission ==
    /\ \A b \in admitted : \A a \in 0 .. (b - 1) : a \in admitted \cup dropped
    /\ \A i \in 1 .. Len(entry_queue) : \A b \in admitted : entry_queue[i] > b
    /\ \A i, j \in 1 .. Len(entry_queue) : i < j => entry_queue[i] < entry_queue[j]

\* A step has admitted the oldest vehicle and left a younger one waiting.
C14_Witness ==
    /\ last_call = "step"
    /\ admitted # {}
    /\ entry_queue # <<>>

\* floor and ceil of an entry rate given in halves of a vehicle.
RateFloor(rate) == rate \div EntryUnit
RateCeil(rate) == (rate + EntryUnit - 1) \div EntryUnit

\* C15: a step generates n vehicles with floor(entry_rate) <= n <=
\* ceil(entry_rate), n = entry_rate for a positive whole rate and n = 0 for a
\* rate of 0 or less; the new vehicles get the identifiers from next_car_id on,
\* none of which was used before, the clock of the step as start time, and
\* stand behind the vehicles that were waiting already: each is in the queue
\* after all older waiting vehicles, or was admitted in this step.
C15_EntryGeneration ==
    [][last_call' = "step" =>
         LET n == next_car_id' - next_car_id
             fresh == next_car_id .. (next_car_id' - 1)
         IN /\ IF entry_rate <= 0 THEN n = 0
               ELSE RateFloor(entry_rate) <= n /\ n <= RateCeil(entry_rate)
            /\ (entry_rate > 0 /\ entry_rate % EntryUnit = 0) => n * EntryUnit = entry_rate
            /\ \A c \in fresh :
                 /\ c \notin DOMAIN start_times
                 /\ c \notin admitted
                 /\ start_times'[c] = current_step
                 /\ \/ c \in admitted'
                    \/ \E i \in 1 .. Len(entry_queue') :
                          /\ entry_queue'[i] = c
                          /\ \A j \in 1 .. Len(entry_queue') :
                                entry_queue'[j] < c => j < i
            /\ \A c \in DOMAIN start_times : start_times'[c] = start_times[c]]_vars

\* A step at a whole entry rate of 1 has generated exactly one vehicle after
\* an earlier step at a fractional rate generated one as well.
C15_Witness ==
    /\ last_call = "step"
    /\ entry_rate = EntryUnit
    /\ next_car_id >= 2
    /\ start_times[next_car_id - 1] = current_step - 1
    /\ start_times[next_car_id - 2] < current_step - 1

\* C16: what calibrate hands to its caller is the pair of the result surface,
\* (result_lag_parameter, result_entry_rate).
C16_ReturnsResult ==
    cal_pc = "returned" => return_value = result_lag_parameter \o result_entry_rate

\* The search has ended: calibrate has returned or a worker's fault has left it.
Terminated == cal_pc \in {"returned", "raised"}

\* C17: the counter of iterations never exceeds 100, an iteration only starts
\* while the distance is above convergence_range, and every search ends.
C17_Terminates ==
    /\ [](counter <= IterationCap)
    /\ [][counter' # counter =>
            /\ counter' = counter + 1
            /\ dist > convergence_range
            /\ counter < IterationCap]_vars
    /\ <>Terminated

\* The search has run all 100 iterations without converging and has returned
\* with the lag parameter still between its bounds.
C17_Witness ==
    /\ cal_pc = "returned"
    /\ counter = IterationCap
    /\ dist > convergence_range
    /\ lag_parameter_min < cal_lag_parameter
    /\ cal_lag_parameter < lag_parameter_max

\* C18: when calibrate has returned, result_lag_parameter and
\* result_entry_rate are the pair the workers of the last iteration were given
\* and result_travel_time is the average of their results.
C18_LastEvaluated ==
    cal_pc = "returned" =>
        /\ result_lag_parameter = <<indices[1][1]>>
        /\ result_entry_rate = <<indices[1][2]>>
        /\ \A i \in DOMAIN indices : indices[i] = indices[1]
        /\ result_travel_time = <<sum_of_avg_travel_times \div repetitions>>
        /\ dist = Abs(result_travel_time[1] - target_travel_time)

\* The search has returned through the both-edged break, before the cap and
\* without having converged, after an iteration that did move a parameter.
C18_Witness ==
    /\ cal_pc = "returned"
    /\ counter < IterationCap
    /\ counter > 1
    /\ dist > convergence_range

\* An update is the step that ends the collection of an iteration.
IsUpdate == cal_pc = "map" /\ cal_pc' \in {"while", "exit"}

\* C19: in every iteration both parameters are moved, before clamping, by
\* their own step sizes in one direction: down when the averaged travel time
\* is above the target, up otherwise.
C19_SameDirection ==
    [][IsUpdate =>
         LET lag_move == proposed'[1] - cal_lag_parameter
             rate_move == proposed'[2] - cal_entry_rate
         IN /\ result_travel_time'[1] > target_travel_time =>
                  lag_move = -lag_parameter_step /\ rate_move = -entry_rate_step
            /\ result_travel_time'[1] <= target_travel_time =>
                  lag_move = lag_parameter_step /\ rate_move = entry_rate_step
            /\ lag_move * rate_move >= 0]_vars

\* An iteration whose average was above the target has proposed a smaller lag
\* parameter and a smaller entry rate than the pair it evaluated.
C19_Witness ==
    /\ proposed # <<>>
    /\ cal_pc = "while"
    /\ result_travel_time[1] > target_travel_time
    /\ proposed[1] < result_lag_parameter[1]
    /\ proposed[2] < result_entry_rate[1]

InBounds(pair) ==
    /\ lag_parameter_min <= pair[1]
    /\ pair[1] <= lag_parameter_max
    /\ entry_rate_min <= pair[2]
    /\ pair[2] <= entry_rate_max

\* C20: the pair an iteration leaves for the next one lies inside the
\* configured bounds, and so does the pair every iteration after the first
\* gives to its workers.
C20_Clamped ==
    /\ proposed # <<>> => InBounds(<<cal_lag_parameter, cal_entry_rate>>)
    /\ counter >= 2 => \A i \in DOMAIN indices : InBounds(indices[i])

\* The search started below the bounds of the entry rate, the first iteration
\* proposed a lag parameter below its lower bound, and the second iteration
\* runs its workers.
C20_Witness ==
    /\ cal_pc = "map"
    /\ counter = 2
    /\ proposed[1] < lag_parameter_min
    /\ result_entry_rate[1] < entry_rate_min

\* The smallest step size lines 103 and 105 allow: 1% of the parameter's range.
LagStepFloor == (lag_parameter_max - lag_parameter_min) \div 100
RateStepFloor == (entry_rate_max - entry_rate_min) \div 100

\* C21 as stated: after an iteration whose distance is not larger than the
\* previous one's (the first iteration included) neither step size is larger
\* than before, after an iteration whose distance got worse neither is smaller,
\* whatever the initial step sizes are.
C21_StepDirectionAnySteps ==
    [][IsUpdate =>
         /\ dist' <= dist =>
              /\ lag_parameter_step' <= lag_parameter_step
              /\ entry_rate_step' <= entry_rate_step
         /\ dist' > dist =>
              /\ lag_parameter_step' >= lag_parameter_step
              /\ entry_rate_step' >= entry_rate_step]_vars

\* C21: after an iteration whose distance is not larger than the previous
\* one's (the first iteration included) a step size that was at least 1% of
\* its parameter's range is no larger than before, and a step size below 1% of
\* the range is raised to exactly that floor; after an iteration whose
\* distance got worse neither step size is smaller than before.
C21_StepDirection ==
    [][IsUpdate =>
         /\ dist' <= dist =>
              /\ lag_parameter_step >= LagStepFloor =>
                   lag_parameter_step' <= lag_parameter_step
              /\ lag_parameter_step < LagStepFloor =>
                   lag_parameter_step' = LagStepFloor
              /\ entry_rate_step >= RateStepFloor =>
                   entry_rate_step' <= entry_rate_step
              /\ entry_rate_step < RateStepFloor =>
                   entry_rate_step' = RateStepFloor
         /\ dist' > dist =>
              /\ lag_parameter_step' >= lag_parameter_step
              /\ entry_rate_step' >= entry_rate_step]_vars

\* The second iteration was further from the target than the first: the lag
\* step the caller set to 40, shrunk by the first iteration, has grown again.
C21_Witness ==
    /\ cal_pc = "while"
    /\ counter = 2
    /\ dist = 4
    /\ lag_parameter_step > (40 * StepMult(1, TRUE)) \div MultScale
    /\ lag_parameter_step < 40

\* The parameter x sits on the bound that the direction required by the
\* iteration's average t pushes it against: the lower bound when t is above the
\* target (sign_mult = -1), the upper bound otherwise.
PushedOutward(x, lo, hi, t) ==
    IF t > target_travel_time THEN x = lo ELSE x = hi

\* C22: an iteration leaves the loop through the both-edged break exactly when
\* the lag parameter and the entry rate it evaluated both sit on a bound and
\* the required direction pushes both further outward; the break is never
\* taken while a parameter is strictly inside its bounds or can still move.
C22_BothEdgedBreak ==
    [][IsUpdate =>
         (cal_pc' = "exit" <=>
            /\ PushedOutward(cal_lag_parameter, lag_parameter_min, lag_parameter_max,
                             result_travel_time'[1])
            /\ PushedOutward(cal_entry_rate, entry_rate_min, entry_rate_max,
                             result_travel_time'[1]))]_vars

\* The sum of the values the first n futures hold.
RECURSIVE SumOfValues(_, _)
SumOfValues(fs, n) == IF n = 0 THEN 0 ELSE SumOfValues(fs, n - 1) + fs[n].value

\* C23: while an iteration waits for its workers, every worker has been given
\* the same tuple, the pair the iteration started with, and that pair is not
\* modified; the iteration's travel time is formed only when all repetitions
\* workers have returned, and it is the sum of all their results divided by
\* repetitions, in whatever order they finished.
C23_IterationBarrier ==
    /\ [](cal_pc = "map" =>
            /\ Len(indices) = repetitions
            /\ Len(futures) = repetitions
            /\ \A i \in 1 .. repetitions :
                 /\ indices[i] = <<cal_lag_parameter, cal_entry_rate>>
                 /\ futures[i].args = indices[i])
    /\ [][cal_pc = "map" /\ ~IsUpdate =>
            UNCHANGED <<cal_lag_parameter, cal_entry_rate, indices>>]_vars
    /\ [][IsUpdate =>
            /\ \A i \in 1 .. repetitions : futures[i].state = "result"
            /\ Len(completed) = repetitions
            /\ result_travel_time' = <<SumOfValues(futures, repetitions) \div repetitions>>]_vars

\* An iteration has formed its travel time from two different results whose
\* workers finished in the reverse order of their submission.
C23_Witness ==
    /\ cal_pc = "while"
    /\ completed = <<2, 1>>
    /\ futures[1].value # futures[2].value
    /\ result_travel_time = <<(futures[1].value + futures[2].value) \div 2>>

\* A worker of the running iteration has raised.
WorkerFaulted == cal_pc = "map" /\ \E i \in DOMAIN futures : futures[i].state = "exception"

\* C24: once a worker of an iteration has raised, calibrate is left by that
\* fault; the iteration forms no average and updates nothing, so the pair, the
\* step sizes, the distance and the three result attributes are those the last
\* completed iteration left (none before the first one completes).
C24_FaultPropagates ==
    /\ WorkerFaulted ~> cal_pc = "raised"
    /\ [][WorkerFaulted => ~IsUpdate]_vars
    /\ [][cal_pc = "map" /\ cal_pc' = "raised" =>
            /\ futures[NextFuture].state = "exception"
            /\ \A i \in 1 .. collected : futures[i].state = "result"]_vars
    /\ [][cal_pc = "map" /\ ~IsUpdate =>
            UNCHANGED <<cal_lag_parameter, cal_entry_rate, lag_parameter_step,
                        entry_rate_step, dist, calResult>>]_vars
    /\ [](cal_pc = "raised" /\ counter = 1 =>
            /\ result_travel_time = <<>>
            /\ result_lag_parameter = <<>>
            /\ result_entry_rate = <<>>)
    /\ [](cal_pc = "raised" /\ counter > 1 =>
            /\ result_travel_time # <<>>
            /\ dist = Abs(result_travel_time[1] - target_travel_time)
            /\ cal_lag_parameter =
                 Clamp(proposed[1], lag_parameter_min, lag_parameter_max)
            /\ cal_entry_rate =
                 Clamp(proposed[2], entry_rate_min, entry_rate_max))

\* The second worker of the second iteration raised after the first one's
\* result had been added to the sum: calibrate was left with the results of
\* the first iteration.
C24_Witness ==
    /\ cal_pc = "raised"
    /\ counter = 2
    /\ collected = 1
    /\ sum_of_avg_travel_times > 0
    /\ futures[1].state = "result"
    /\ futures[2].state = "exception"
    /\ result_travel_time # <<>>

\* The calls of a run with w warmup steps and m measured steps, in order.
RunOrder(w, m) ==
    [i \in 1 .. w |-> "step"] \o <<"reset_stats", "reset_queue">>
        \o [i \in 1 .. 2 * m |-> IF i % 2 = 1 THEN "get_road" ELSE "step"]

IsPrefix(s, t) == Len(s) <= Len(t) /\ \A i \in 1 .. Len(s) : s[i] = t[i]

\* C25: the calls SimulationMultiple.run makes on its engine are, in order,
\* the warmup steps, one reset_stats, one reset_queue, and then for each of
\* the self.steps measured steps one get_road followed by one step; the
\* statistics are reset only when no warmup step is left, and every pass of
\* the measurement loop saves as the next row of self.data the road as it is
\* before that pass's step.
C25_HarnessOrder ==
    /\ [](\E w \in 0 .. Len(run_log) : IsPrefix(run_log, RunOrder(w, steps)))
    /\ [](pc = "done" =>
            /\ run_log = RunOrder(window_start, steps)
            /\ Len(data) = steps
            /\ current_step = window_start + steps)
    /\ [][run_log' # run_log /\ run_log'[Len(run_log')] = "reset_stats" =>
            warmup_left = 0 /\ warmup_left' = 0]_vars
    /\ [][pc = "measure" /\ current_step' # current_step =>
            /\ data' = Append(data, get_road)
            /\ current_step' = current_step + 1]_vars
    /\ [][data' # data => pc = "reset_queue" \/ current_step' # current_step]_vars

\* A run with two warmup steps and two measured steps has ended; its two
\* snapshots differ and the first one shows a vehicle the warmup left behind.
C25_Witness ==
    /\ pc = "done"
    /\ window_start = 2
    /\ steps = 2
    /\ Len(data) = 2
    /\ data[1] # data[2]
    /\ \E l \in LaneSet, x \in Positions : data[1][l][x] >= 0

\* The road r with every lane but l emptied.
OnlyLane(r, l) == [k \in LaneSet |-> IF k = l THEN r[k] ELSE [x \in Positions |-> Empty]]

\* A step of the engine has been made.
IsStep == current_step' = current_step + 1

\* C27: with multi_lane_rules disabled, a step leaves every vehicle that stays
\* on the road in its lane, moves it by a speed that the single-lane rules
\* (acceleration, gap, chance) give on its own lane alone, never lets a
\* vehicle get past the one ahead of it in its lane, and never lets a vehicle
\* exit while one ahead of it in its lane stays on the road.
C27_IndependentLanes ==
    [][IsStep /\ ~multi_lane_rules =>
         \A c \in CarsOn(road) :
            LET l == LaneOf(road, c)
                x == PosOf(road, c)
                alone == GapSpeed(OnlyLane(road, l), l, x, Accelerate(velocities[c]))
            IN /\ c \in CarsOn(road') =>
                    /\ LaneOf(road', c) = l
                    /\ PosOf(road', c) = x + velocities'[c]
                    /\ velocities'[c] \in {Dawdle(alone, draw) : draw \in BOOLEAN}
               /\ c \notin CarsOn(road') =>
                    /\ c \in exited'
                    /\ \E draw \in BOOLEAN : x + Dawdle(alone, draw) >= road_length
               /\ \A d \in CarsOn(road) :
                    LaneOf(road, d) = l /\ PosOf(road, d) < x =>
                       /\ d \in CarsOn(road')
                       /\ c \in CarsOn(road') => PosOf(road', d) < PosOf(road', c)]_vars

\* With multi_lane_rules disabled a vehicle has been stopped behind another
\* one in lane 1 while lane 0, to its left, is empty.
C27_Witness ==
    /\ ~multi_lane_rules
    /\ lanes = 2
    /\ last_call = "step"
    /\ \A x \in Positions : road[0][x] = Empty
    /\ \E c, d \in CarsOn(road) :
         /\ LaneOf(road, c) = 1
         /\ LaneOf(road, d) = 1
         /\ PosOf(road, c) < PosOf(road, d)
         /\ velocities[c] = 0

\* The cells of the road that hold a vehicle.
CarCells == {lx \in LaneSet \X Positions : road[lx[1]][lx[2]] >= 0}

\* The orders in which the loop of line 49 could go through the vehicles.
ProcessingOrders ==
    {order \in [1 .. Cardinality(CarCells) -> CarCells] :
        \A i, j \in DOMAIN order : i # j => order[i] # order[j]}

\* The body of the loop of lines 49-123 applied to the vehicles in the given
\* order, from its i-th vehicle on.
RECURSIVE MoveInOrder(_, _, _, _)
MoveInOrder(order, i, acc, draws) ==
    IF i > Len(order)
    THEN acc
    ELSE LET lane == order[i][1]
             pos == order[i][2]
             car_id == road[lane][pos]
         IN MoveInOrder(order, i + 1,
                        Move(acc, car_id,
                             Drive(road, velocities, lane, pos, car_id \in draws), pos),
                        draws)

\* C28: whatever the random draws of the vehicles are, going through the
\* vehicles in any order gives the same new road and the same new speeds as
\* the order of line 48.
C28_OrderIndependent ==
    \A draws \in Draws(p, CarsOn(road)) :
       LET start == [road |-> ApplyClosures, vel |-> <<>>,
                     times |-> times_taken, exited |-> exited,
                     finalized |-> finalized, dawdled |-> FALSE]
           coded == MoveCars(0, start, draws)
       IN \A order \in ProcessingOrders :
             /\ MoveInOrder(order, 1, start, draws).road = coded.road
             /\ MoveInOrder(order, 1, start, draws).vel = coded.vel

\* The cells from..to of lane l, as far as they are on the road, are all empty.
CellsEmpty(l, from, to) ==
    \A x \in Max(from, 0) .. Min(to, road_length - 1) : road[l][x] = Empty

\* The merge rule for the window that starts back cells behind the vehicle:
\* in a step with multi-lane rules, a vehicle that has a right lane, stays on
\* the road and did not move to the left lane is in the right lane afterwards
\* exactly when the right-lane cells of the window, which ends at its position
\* plus its speed after the gap rule, were all empty; and its speed is that
\* speed, less one if it dawdled.
MergeRule(back) ==
    IsStep /\ multi_lane_rules =>
       \A c \in CarsOn(road) \cap CarsOn(road') :
          LET l == LaneOf(road, c)
              x == PosOf(road, c)
              v == GapSpeed(road, l, x, Accelerate(velocities[c]))
          IN l + 1 < lanes /\ LaneOf(road', c) # l - 1 =>
                /\ LaneOf(road', c) = l + 1 <=> CellsEmpty(l + 1, x - back, x + v)
                /\ velocities'[c] \in {Dawdle(v, draw) : draw \in BOOLEAN}
                /\ LaneOf(road', c) = l + 1 => c \in DOMAIN switched' /\ switched'[c] = 1

\* C29 as stated: the window goes from the vehicle's position through its
\* position plus its speed.
C29_MergeAheadOnly == [][MergeRule(0)]_vars

\* C29: the window goes from max(0, position - v_max) through the vehicle's
\* position plus its speed: the merge also needs the right lane to be empty
\* over the v_max cells behind the vehicle.
C29_MergeRule == [][MergeRule(v_max)]_vars

\* A vehicle has just moved to the right lane at full speed: it was not slowed
\* by the gap rule and the switch has not changed its speed.
C29_Witness ==
    /\ multi_lane_rules
    /\ lanes = 2
    /\ last_call = "step"
    /\ \E c \in CarsOn(road) :
         /\ c \in DOMAIN switched
         /\ switched[c] = 1
         /\ velocities[c] = v_max

\* C30: in a step, a vehicle that stays on the road is in the left lane
\* afterwards exactly when multi-lane rules are enabled, it has a left lane,
\* the gap rule left it less than the desired speed min(old speed + 1, v_max),
\* the left-lane cells from max(0, position - v_max) through its position were
\* all empty, and the gap rule applied to the left lane with the desired
\* speed gives strictly more than it gave in its own lane; its speed is then
\* that left-lane speed, less one if it dawdled.
C30_OvertakeRule ==
    [][IsStep =>
         \A c \in CarsOn(road) \cap CarsOn(road') :
            LET l == LaneOf(road, c)
                x == PosOf(road, c)
                v_target == Min(velocities[c] + 1, v_max)
                v == GapSpeed(road, l, x, v_target)
                v_left == GapSpeed(road, l - 1, x, v_target)
                overtakes == /\ multi_lane_rules
                             /\ l >= 1
                             /\ v < v_target
                             /\ CellsEmpty(l - 1, x - v_max, x)
                             /\ v_left > v
            IN /\ LaneOf(road', c) = l - 1 <=> overtakes
               /\ overtakes =>
                    /\ velocities'[c] \in {Dawdle(v_left, draw) : draw \in BOOLEAN}
                    /\ PosOf(road', c) = x + velocities'[c]
                    /\ c \in DOMAIN switched' /\ switched'[c] = -1]_vars

\* A step has just moved a vehicle to the left lane, where it drives at
\* v_max, while at least one other vehicle is on the road.
C30_Witness ==
    /\ last_call = "step"
    /\ Cardinality(CarsOn(road)) >= 2
    /\ \E c \in CarsOn(road) :
         /\ c \in DOMAIN switched
         /\ switched[c] = -1
         /\ velocities[c] = v_max

\* The step whose move loop took the vehicle c off the road: the clock value
\* of lines 119-120 (current_step before line 145 advances it) plus one.
ExitStep(c) == start_times[c] + times_taken[c] + 1

\* C26 as stated: in the free-flow scenario, once vehicles leave the road,
\* two vehicles that leave one after the other do so about road_length / v_max
\* steps apart (within a factor of two either way).
C26_ExitEveryTravelTime ==
    \A c \in DOMAIN times_taken :
        (c + 1) \in DOMAIN times_taken =>
            LET between == ExitStep(c + 1) - ExitStep(c)
            IN /\ 2 * between * v_max >= road_length
               /\ between * v_max <= 2 * road_length

\* C26 (amended): in the free-flow scenario vehicles leave the road in the
\* order they were created, two consecutive exits are one or two steps apart
\* whatever the road length, and road_length / v_max is a lower bound of each
\* vehicle's recorded travel time.
C26_FreeFlowThroughput ==
    \A c \in DOMAIN times_taken :
        /\ times_taken[c] * v_max >= road_length
        /\ c > 0 => (c - 1) \in DOMAIN times_taken
        /\ (c + 1) \in DOMAIN times_taken =>
              ExitStep(c + 1) - ExitStep(c) \in {1, 2}

\* Three vehicles have left a road of more than 4 * v_max cells, the last two
\* of them two steps apart, while vehicles are waiting in the entry queue.
C26_Witness ==
    /\ last_call = "step"
    /\ road_length > 4 * v_max
    /\ entry_queue # <<>>
    /\ \E c \in DOMAIN times_taken :
         /\ c >= 2
         /\ (c - 1) \in DOMAIN times_taken
         /\ ExitStep(c) - ExitStep(c - 1) = 2

\* The number of consecutive unobstructed cells directly ahead of pos in lane
\* l among pos + 1 .. pos + d: a cell obstructs when it is on the road and
\* holds a vehicle or is closed.
UnobstructedAhead(l, pos, d) ==
    LET clear(k) == \A j \in 1 .. k : pos + j >= road_length \/ road[l][pos + j] = Empty
    IN CHOOSE k \in 0 .. d : clear(k) /\ (k < d => ~clear(k + 1))

\* C31: in a step, the speed of a vehicle after the gap constraint is
\* min(d, g) with d = min(old speed + 1, v_max) and g the number of
\* consecutive unobstructed cells ahead of it in its lane within d cells,
\* cells beyond the road end never obstructing: a vehicle that stays on the
\* road without going left has that speed, less one if it dawdled, and has
\* advanced by it; with the lane rules off and no dawdling a vehicle stays on
\* the road exactly when its position plus that speed is on the road.
C31_GapRule ==
    [][IsStep =>
         \A c \in CarsOn(road) :
            LET l == LaneOf(road, c)
                x == PosOf(road, c)
                d == Min(velocities[c] + 1, v_max)
                v == Min(d, UnobstructedAhead(l, x, d))
            IN /\ (c \in CarsOn(road') /\ (c \notin DOMAIN switched' \/ switched'[c] # -1)) =>
                    /\ velocities'[c] \in {v, Dawdle(v, TRUE)}
                    /\ PosOf(road', c) = x + velocities'[c]
               /\ (~multi_lane_rules /\ p = 0) =>
                    /\ c \in CarsOn(road') <=> x + v < road_length
                    /\ c \in exited' <=> x + v >= road_length]_vars

\* Without dawdling, a step has left a vehicle on the road that drives slower
\* than v_max behind another one in its lane, after a vehicle has driven off
\* the road end.
C31_Witness ==
    /\ p = 0
    /\ last_call = "step"
    /\ exited # {}
    /\ \E c, e \in CarsOn(road) :
         /\ velocities[c] < v_max
         /\ LaneOf(road, e) = LaneOf(road, c)
         /\ PosOf(road, e) > PosOf(road, c)

\* C32: in a step, every vehicle that stays on the road is in the lane that
\* the gap and lane-change rules give it without regard to the random draw,
\* and its speed is the speed v those rules give it or, only if v > 0 and
\* p > 0, exactly v - 1; it has advanced by its final speed, so that dawdling
\* changes its final position by one cell and nothing else.
C32_DawdleAfterLaneDecision ==
    [][IsStep =>
         \A c \in CarsOn(road) :
            LET l == LaneOf(road, c)
                x == PosOf(road, c)
                undawdled == Drive(road, velocities, l, x, FALSE)
                slowed == IF undawdled.v > 0 /\ p > 0 THEN {undawdled.v - 1} ELSE {}
            IN /\ c \in CarsOn(road') =>
                    /\ LaneOf(road', c) = undawdled.lane
                    /\ velocities'[c] \in {undawdled.v} \cup slowed
                    /\ PosOf(road', c) = x + velocities'[c]
               /\ c \notin CarsOn(road') =>
                    \E v \in {undawdled.v} \cup slowed : x + v >= road_length]_vars

\* The only vehicle admitted so far has changed its lane and dawdled in the
\* same step.
C32_Witness ==
    /\ last_call = "step"
    /\ admitted = {0}
    /\ 0 \in CarsOn(road)
    /\ 0 \in DOMAIN switched
    /\ dawdled

\* The final speeds the rules of a step can give the vehicle at (l, x): the
\* speed after the gap and lane rules, and one less by chance when p > 0.
FinalSpeeds(l, x) ==
    {Drive(road, velocities, l, x, draw).v : draw \in (IF p > 0 THEN BOOLEAN ELSE {FALSE})}

\* C33: in a step a vehicle leaves the road exactly when its position plus its
\* final speed is at least road_length, and otherwise stands at that position;
\* for a vehicle that leaves, the ledger holds the clock of this step minus
\* the clock of the step that generated it, which is never later than the
\* clock of the step that placed it on the road, and the generation clock of a
\* vehicle is written once, when it is enqueued.
C33_ExitRecorded ==
    [][IsStep =>
         /\ \A c \in CarsOn(road) :
               LET l == LaneOf(road, c)
                   x == PosOf(road, c)
               IN /\ c \in exited' <=> c \notin CarsOn(road')
                  /\ c \in exited' =>
                        /\ \E v \in FinalSpeeds(l, x) : x + v >= road_length
                        /\ c \in DOMAIN times_taken'
                        /\ times_taken'[c] = current_step - start_times[c]
                        /\ times_taken'[c] >= current_step - entered[c]
                  /\ c \notin exited' =>
                        /\ velocities'[c] \in FinalSpeeds(l, x)
                        /\ PosOf(road', c) = x + velocities'[c]
                        /\ x + velocities'[c] < road_length
         /\ \A c \in DOMAIN start_times : start_times'[c] = start_times[c]
         /\ \A c \in DOMAIN start_times' \ DOMAIN start_times : start_times'[c] = current_step
         /\ \A c \in DOMAIN entered' : start_times'[c] <= entered'[c]]_vars

\* The ledger holds a vehicle that waited in the entry queue for at least one
\* step before it was placed on the road: its duration is larger than the
\* number of steps it was on the road.
C33_Witness ==
    /\ last_call = "step"
    /\ \E c \in DOMAIN times_taken :
         /\ c \in exited
         /\ entered[c] > start_times[c]
         /\ times_taken[c] > (start_times[c] + times_taken[c]) - entered[c]

\* The lanes a closure is in force on during the step about to be made.
ClosedLanes ==
    {l \in LaneSet : l \in DOMAIN closing_end_times /\ current_step < closing_end_times[l]}

\* C34: a step places queued vehicles only on cell 0 of lanes that are not
\* closed, with speed v_max, taking them from the queue; every vehicle of the
\* previous road that did not drive off the road is still on the road, so no
\* vehicle was replaced; each lane receives at most one vehicle; and after the
\* step the queue is non-empty only if no lane has an empty entry cell.
C34_AdmissionSafe ==
    [][IsStep =>
         LET placed == admitted' \ admitted
         IN /\ \A c \in placed :
                  /\ c \notin CarsOn(road)
                  /\ c \in CarsOn(road')
                  /\ PosOf(road', c) = 0
                  /\ LaneOf(road', c) \notin ClosedLanes
                  /\ velocities'[c] = v_max
                  /\ \A i \in 1 .. Len(entry_queue') : entry_queue'[i] # c
            /\ \A c, d \in placed : c # d => LaneOf(road', c) # LaneOf(road', d)
            /\ Cardinality(placed) <= lanes
            /\ \A c \in CarsOn(road) : c \in CarsOn(road') \/ c \in exited'
            /\ CarsOn(road') \subseteq CarsOn(road) \cup placed
            /\ entry_queue' # <<>> => \A l \in LaneSet : road'[l][0] # Empty]_vars

\* A step under a closure has placed a vehicle on the entry cell of the open
\* lane and left another one waiting in the queue, the closed lane's entry
\* cell being closed.
C34_Witness ==
    /\ last_call = "step"
    /\ lanes = 2
    /\ entry_queue # <<>>
    /\ \E l \in LaneSet :
         /\ road[l][0] = Closed
         /\ road[1 - l][0] >= 0
         /\ entered[road[1 - l][0]] = current_step - 1

\* The parameter x lies strictly between its bounds.
StrictlyInside(x, lo, hi) == lo < x /\ x < hi

\* C35: every iteration's update leaves each step size at least 1% of its
\* parameter's range, whatever step sizes the caller supplied; and in every
\* update after the first, a parameter that lies strictly inside its bounds
\* (max > min) changes its value.
C35_StepFloor ==
    [][IsUpdate =>
         /\ lag_parameter_step' >= LagStepFloor
         /\ entry_rate_step' >= RateStepFloor
         /\ result_travel_time # <<>> =>
              /\ lag_parameter_step >= LagStepFloor
              /\ entry_rate_step >= RateStepFloor
              /\ StrictlyInside(cal_lag_parameter, lag_parameter_min, lag_parameter_max) =>
                   cal_lag_parameter' # cal_lag_parameter
              /\ StrictlyInside(cal_entry_rate, entry_rate_min, entry_rate_max) =>
                   cal_entry_rate' # cal_entry_rate]_vars

\* Two iterations are done: the lag parameter, left at its default start by
\* the first update because the caller's lag step was below the floor, has
\* been moved by exactly the floor in the second one.
C35_Witness ==
    /\ cal_pc = "while"
    /\ counter = 2
    /\ LagStepFloor > 0
    /\ lag_parameter_step = LagStepFloor
    /\ Abs(cal_lag_parameter - DefaultStart(lag_parameter_min, lag_parameter_max)) = LagStepFloor

\* C36: every duration in the ledger is at least road_length / v_max rounded
\* up, i.e. the duration times v_max is at least road_length.
C36_NoFasterThanVMax ==
    \A c \in DOMAIN times_taken :
        /\ times_taken[c] * v_max >= road_length
        /\ times_taken[c] >= (road_length + v_max - 1) \div v_max

\* After a control call between the steps, the ledger holds a vehicle that
\* crossed the road in exactly road_length / v_max (rounded up) steps.
C36_Witness ==
    /\ calls > 0
    /\ \E c \in DOMAIN times_taken :
         times_taken[c] = (road_length + v_max - 1) \div v_max

\* C37: the pair the first iteration gives to its workers lies inside the
\* configured bounds (the searches start from the default entry rate, and from
\* the default lag parameter or one on its upper bound).
C37_DefaultStartInBounds ==
    (cal_pc = "map" /\ counter = 1) =>
        \A i \in DOMAIN indices : InBounds(indices[i])

\* C38: a close_lane call with a lane index >= lanes records no closure and
\* leaves the road as it is, and no step() fails afterwards.
C38_MissingLaneRejected ==
    /\ DOMAIN closing_end_times \subseteq LaneSet
    /\ last_call # "step_raised"

\* The list r is start-ordered, contiguous and covers [0, duration) exactly.
CoversExactly(r, duration) ==
    /\ r # <<>>
    /\ r[1][1] = 0
    /\ r[Len(r)][2] = duration
    /\ \A i \in 1 .. Len(r) : r[i][1] < r[i][2]
    /\ \A i \in 1 .. (Len(r) - 1) : r[i][2] = r[i + 1][1]

\* The list r holds every given tuple and, besides them, default tuples only.
KeepsGiven(r, given) ==
    /\ \A i \in 1 .. Len(given) : \E j \in 1 .. Len(r) : r[j] = given[i]
    /\ \A j \in 1 .. Len(r) :
          r[j][3] = DefaultLabel \/ \E i \in 1 .. Len(given) : r[j] = given[i]

\* C39: for every list of pairwise non-overlapping intervals inside
\* [0, duration), the empty list and lists of one interval included,
\* _calculate_parameters returns a start-ordered contiguous cover of
\* [0, duration) that keeps the given tuples and fills the gaps with default
\* tuples, and run() makes exactly one step per time offset 0 .. duration - 1.
C39_ScheduleComplete ==
    /\ rh_pc # "raised"
    /\ rh_pc \in {"run", "done"} =>
          /\ CoversExactly(rh_parameters, rh_duration)
          /\ KeepsGiven(rh_parameters, rh_given)
    /\ rh_pc = "done" => rh_executed = Range(0, rh_duration)

====
